---- MODULE Spec2Model ----
(***************************************************************************)
(* Model of the online profile engine of proposed_solution:                *)
(*   fraud_profile.py    FraudProfile (metrics, velocity, risk, save/load) *)
(*   anomaly_detector.py AnomalyDetector (fit at start-up, detect_anomaly) *)
(*   api.py              the HTTP handlers that drive both                 *)
(*                                                                         *)
(* Numbers.  Python ints are integers.  Python floats are modelled as      *)
(* exact rationals [n |-> numerator, d |-> denominator > 0] in lowest      *)
(* terms, so that a mean is the quotient the code computes and not a       *)
(* rounded integer.  The one irrational operation, numpy.std, is the       *)
(* square root of the exact variance rounded down to two decimals.         *)
(*                                                                         *)
(* Time.  A datetime is an integer number of seconds.  An ISO-8601 string  *)
(* is the record [iso |-> seconds]; datetime.isoformat produces it and     *)
(* datetime.fromisoformat reads it back.                                   *)
(***************************************************************************)
EXTENDS Integers, Sequences, FiniteSets, TLC

\* ------------------------------------------------------------------ bounds
MaxCalls == 3            \* update calls made on one in-memory profile object
MaxRequests == 3         \* HTTP requests served in one run of the model
MaxFeatureCalls == 4     \* update_with_feature_usage calls on one object

\* ------------------------------------------------------- program constants
DaySeconds == 86400      \* 24h velocity window
WeekSeconds == 604800    \* 7d velocity window

\* ------------------------------------------------------------- input sets
Users == {"u1", "u2"}
EngineUsers == {"u1"}                     \* users the direct caller works on
ClockTimes == {0, 700000}                 \* wall-clock instants (datetime.now())
LoginTimes == {0, 600, 1200, 87000}       \* event timestamps of logins
OtherTimes == {0}                         \* event timestamps of the other kinds
Amounts == {-1000, 100, 200, 300}
Durations == {60, 7200}
Frequencies == {1, 5}
EventTypes == {"login", "transaction", "session", "feature_usage"}

\* -------------------------------------------------------------- rationals
Abs(x) == IF x < 0 THEN -x ELSE x

RECURSIVE Gcd(_, _)
Gcd(a, b) == IF b = 0 THEN a ELSE Gcd(b, a % b)

Rat(num, den) ==
  LET g == Gcd(Abs(num), Abs(den))
      s == IF den < 0 THEN -1 ELSE 1
  IN  [n |-> (s * num) \div g, d |-> (s * den) \div g]

Float(i) == [n |-> i, d |-> 1]
RZero == Float(0)
ROne == Float(1)

RAdd(a, b) ==
  LET l == (a.d \div Gcd(a.d, b.d)) * b.d
  IN  Rat(a.n * (l \div a.d) + b.n * (l \div b.d), l)

RMul(a, b) ==
  LET x == Rat(a.n, b.d)
      y == Rat(b.n, a.d)
  IN  [n |-> x.n * y.n, d |-> x.d * y.d]

RDiv(a, b) == RMul(a, Rat(b.d, b.n))
RLe(a, b) == a.n * b.d <= b.n * a.d
RLt(a, b) == a.n * b.d < b.n * a.d
RMin(a, b) == IF RLt(b, a) THEN b ELSE a
RMax(a, b) == IF RLt(a, b) THEN b ELSE a

RECURSIVE ISqrtIter(_, _, _)
ISqrtIter(x, lo, hi) ==
  IF lo >= hi THEN lo
  ELSE LET mid == (lo + hi + 1) \div 2
       IN  IF mid * mid <= x THEN ISqrtIter(x, mid, hi)
                              ELSE ISqrtIter(x, lo, mid - 1)

\* floor of the square root of a natural number below 2^30
ISqrt(x) == ISqrtIter(x, 0, 32767)

\* square root of a non-negative rational, rounded down to two decimals
RSqrt(q) == Rat(ISqrt(q.n * q.d * 10000), q.d * 100)

RECURSIVE RSum(_)
RSum(s) == IF s = <<>> THEN RZero ELSE RAdd(Head(s), RSum(Tail(s)))

RECURSIVE RMaxOf(_)
RMaxOf(s) == IF Len(s) = 1 THEN s[1] ELSE RMax(s[1], RMaxOf(Tail(s)))

\* numpy.std: population standard deviation of a non-empty list of floats
NpStd(values) ==
  LET cnt == Float(Len(values))
      mean == RDiv(RSum(values), cnt)
      sq == [i \in DOMAIN values |->
               LET dev == RAdd(values[i], RMul(Float(-1), mean))
               IN  RMul(dev, dev)]
  IN  RSqrt(RDiv(RSum(sq), cnt))

\* ------------------------------------------------------------------- time
IsoFormat(t) == [iso |-> t]
FromIsoFormat(s) == s.iso

\* a string datetime.fromisoformat does not accept
NotADate == [text |-> "not-a-date"]

\* datetime.fromisoformat(s) returns (it raises ValueError otherwise)
IsIsoString(s) == "iso" \in DOMAIN s

\* datetime.fromisoformat(event[key]), the first statement of every update
\* method: the exception it raises, "" when it returns
TimestampError(event, key) ==
  IF key \notin DOMAIN event THEN "KeyError"
  ELSE IF ~IsIsoString(event[key]) THEN "ValueError"
  ELSE ""

\* Optional[datetime]: <<>> is None, <<t>> is the datetime t
None == <<>>
Some(t) == <<t>>

\* ------------------------------------------------------------- dataclasses
LoginMetrics ==
  [total_logins |-> 0, unique_devices |-> 0, unique_ips |-> 0,
   unique_locations |-> 0, avg_login_interval |-> RZero,
   last_login_time |-> None, login_velocity_24h |-> 0,
   login_velocity_7d |-> 0, suspicious_login_count |-> 0]

TransactionMetrics ==
  [total_transactions |-> 0, total_amount |-> RZero, avg_amount |-> RZero,
   max_amount |-> RZero, unique_merchants |-> 0,
   transaction_velocity_24h |-> 0, transaction_velocity_7d |-> 0,
   suspicious_transaction_count |-> 0]

SessionMetrics ==
  [total_sessions |-> 0, avg_session_duration |-> RZero,
   max_session_duration |-> RZero, session_velocity_24h |-> 0,
   session_velocity_7d |-> 0]

FeatureUsageMetrics ==
  [unique_features_used |-> 0, feature_usage_count |-> 0,
   total_frequency |-> RZero, avg_feature_frequency |-> RZero,
   std_feature_frequency |-> RZero, feature_usage_velocity_24h |-> 0,
   feature_usage_velocity_7d |-> 0]

RiskScores ==
  [login_risk |-> RZero, transaction_risk |-> RZero, session_risk |-> RZero,
   feature_usage_risk |-> RZero, overall_risk |-> RZero]

\* ------------------------------------------------------- the profile store
\* One file profiles/<user_id>.json per user: missing, valid JSON, or the
\* truncated text a failed json.dump leaves behind.
NoFile == [kind |-> "absent"]
CorruptFile == [kind |-> "corrupt"]
JsonFile(data) == [kind |-> "json", data |-> data]

\* json.dump of one metrics __dict__: every field is a number except
\* last_login_time, which serialises only when it is None
JsonSerializable(p) == p.login_metrics.last_login_time = None

\* the fields FraudProfile.__init__ sets before _initialize_metrics runs
BlankProfile(user_id, clk) ==
  [user_id |-> user_id,
   login_metrics |-> LoginMetrics,
   transaction_metrics |-> TransactionMetrics,
   session_metrics |-> SessionMetrics,
   feature_usage_metrics |-> FeatureUsageMetrics,
   risk_scores |-> RiskScores,
   last_updated |-> clk,
   historical_changes |-> <<>>]

\* FraudProfile._load_from_dict
LoadFromDict(p, data) ==
  [p EXCEPT !.login_metrics = data.login_metrics,
            !.transaction_metrics = data.transaction_metrics,
            !.session_metrics = data.session_metrics,
            !.feature_usage_metrics = data.feature_usage_metrics,
            !.risk_scores = data.risk_scores,
            !.last_updated = FromIsoFormat(data.last_updated),
            !.historical_changes = data.historical_changes]

\* An operation's outcome: the object as the operation left it, the name of
\* the exception that ended it ("" when it returned), and the file content
\* it left in the store.
Outcome(p, raised, file) == [profile |-> p, raised |-> raised, file |-> file]

\* _initialize_metrics without its except clause
InitializeMetricsNoCatch(p, file) ==
  IF file.kind = "absent" THEN Outcome(p, "FileNotFoundError", file)
  ELSE IF file.kind = "corrupt" THEN Outcome(p, "JSONDecodeError", file)
  ELSE Outcome(LoadFromDict(p, file.data), "", file)

\* FraudProfile._initialize_metrics: only FileNotFoundError is caught
InitializeMetrics(p, file) ==
  IF file.kind = "absent" THEN Outcome(p, "", file)
  ELSE IF file.kind = "corrupt" THEN Outcome(p, "JSONDecodeError", file)
  ELSE Outcome(LoadFromDict(p, file.data), "", file)

\* FraudProfile.__init__
NewFraudProfile(user_id, file, clk) ==
  InitializeMetrics(BlankProfile(user_id, clk), file)

\* FraudProfile._save_profile: open(..., "w") truncates the file, json.dump
\* writes it piece by piece and raises TypeError at a datetime
SaveProfile(p) ==
  IF JsonSerializable(p)
  THEN Outcome(p, "",
         JsonFile([login_metrics |-> p.login_metrics,
                   transaction_metrics |-> p.transaction_metrics,
                   session_metrics |-> p.session_metrics,
                   feature_usage_metrics |-> p.feature_usage_metrics,
                   risk_scores |-> p.risk_scores,
                   last_updated |-> IsoFormat(p.last_updated),
                   historical_changes |-> p.historical_changes]))
  ELSE Outcome(p, "TypeError", CorruptFile)

\* --------------------------------------------------------- metrics engine
\* history entries of one event type, in history order
EntriesOf(history, event_type) ==
  SelectSeq(history, LAMBDA change : change.event_type = event_type)

\* One of the list comprehensions of _update_velocity_metrics: the entries
\* of the type whose own "timestamp" lies at most `window` seconds before
\* current_time.  The entry's "timestamp" is the one _record_change wrote.
CountWithin(history, event_type, current_time, window) ==
  Cardinality({i \in DOMAIN history :
     /\ history[i].event_type = event_type
     /\ current_time - FromIsoFormat(history[i].timestamp) <= window})

\* The session branch reads change["start_time"], a key no history entry
\* has: the scan raises KeyError at the first session entry it meets.
VelocityRaises(p, metric_type) ==
  /\ metric_type = "session"
  /\ \E i \in DOMAIN p.historical_changes :
        /\ p.historical_changes[i].event_type = "session"
        /\ "start_time" \notin DOMAIN p.historical_changes[i]

\* _update_velocity_metrics with the two windows exchanged: the 24h field
\* takes the count of the week and the 7d field the count of the day
UpdateVelocityMetricsSwapped(p, metric_type, current_time) ==
  LET v24 == CountWithin(p.historical_changes, metric_type, current_time, WeekSeconds)
      v7d == CountWithin(p.historical_changes, metric_type, current_time, DaySeconds)
  IN  IF metric_type = "login"
      THEN [p EXCEPT !.login_metrics.login_velocity_24h = v24,
                     !.login_metrics.login_velocity_7d = v7d]
      ELSE IF metric_type = "transaction"
      THEN [p EXCEPT !.transaction_metrics.transaction_velocity_24h = v24,
                     !.transaction_metrics.transaction_velocity_7d = v7d]
      ELSE IF metric_type = "session"
      THEN [p EXCEPT !.session_metrics.session_velocity_24h = v24,
                     !.session_metrics.session_velocity_7d = v7d]
      ELSE IF metric_type = "feature_usage"
      THEN [p EXCEPT !.feature_usage_metrics.feature_usage_velocity_24h = v24,
                     !.feature_usage_metrics.feature_usage_velocity_7d = v7d]
      ELSE p

\* FraudProfile._update_velocity_metrics (when it does not raise)
UpdateVelocityMetrics(p, metric_type, current_time) ==
  LET v24 == CountWithin(p.historical_changes, metric_type, current_time, DaySeconds)
      v7d == CountWithin(p.historical_changes, metric_type, current_time, WeekSeconds)
  IN  IF metric_type = "login"
      THEN [p EXCEPT !.login_metrics.login_velocity_24h = v24,
                     !.login_metrics.login_velocity_7d = v7d]
      ELSE IF metric_type = "transaction"
      THEN [p EXCEPT !.transaction_metrics.transaction_velocity_24h = v24,
                     !.transaction_metrics.transaction_velocity_7d = v7d]
      ELSE IF metric_type = "session"
      THEN [p EXCEPT !.session_metrics.session_velocity_24h = v24,
                     !.session_metrics.session_velocity_7d = v7d]
      ELSE IF metric_type = "feature_usage"
      THEN [p EXCEPT !.feature_usage_metrics.feature_usage_velocity_24h = v24,
                     !.feature_usage_metrics.feature_usage_velocity_7d = v7d]
      ELSE p

\* FraudProfile._update_risk_scores
UpdateRiskScores(p) ==
  LET lm == p.login_metrics
      tm == p.transaction_metrics
      sm == p.session_metrics
      fm == p.feature_usage_metrics
      login_risk ==
        RMin(ROne,
          RAdd(RAdd(RMul(Rat(lm.login_velocity_24h, 10), Rat(3, 10)),
                    RMul(Rat(lm.unique_locations, 5), Rat(3, 10))),
               RMul(Rat(lm.unique_devices, 3), Rat(4, 10))))
      transaction_risk ==
        RMin(ROne,
          RAdd(RAdd(RMul(Rat(tm.transaction_velocity_24h, 20), Rat(3, 10)),
                    RMul(RDiv(tm.avg_amount, Float(1000)), Rat(4, 10))),
               RMul(Rat(tm.unique_merchants, 10), Rat(3, 10))))
      session_risk ==
        RMin(ROne,
          RAdd(RMul(Rat(sm.session_velocity_24h, 15), Rat(4, 10)),
               RMul(RDiv(sm.avg_session_duration, Float(3600)), Rat(6, 10))))
      feature_usage_risk ==
        RMin(ROne,
          RAdd(RAdd(RMul(Rat(fm.feature_usage_velocity_24h, 50), Rat(3, 10)),
                    RMul(fm.std_feature_frequency, Rat(4, 10))),
               RMul(RDiv(fm.avg_feature_frequency, Float(10)), Rat(3, 10))))
      overall_risk ==
        RAdd(RAdd(RMul(login_risk, Rat(3, 10)),
                  RMul(transaction_risk, Rat(3, 10))),
             RAdd(RMul(session_risk, Rat(2, 10)),
                  RMul(feature_usage_risk, Rat(2, 10))))
  IN  [p EXCEPT !.risk_scores =
         [login_risk |-> login_risk, transaction_risk |-> transaction_risk,
          session_risk |-> session_risk,
          feature_usage_risk |-> feature_usage_risk,
          overall_risk |-> overall_risk]]

\* FraudProfile._record_change: the entry is stamped with datetime.now(),
\* not with the event's own time
RecordChange(p, event_type, event_data, clk) ==
  [p EXCEPT !.historical_changes =
              Append(@, [timestamp |-> IsoFormat(clk),
                         event_type |-> event_type,
                         event_data |-> event_data]),
            !.last_updated = clk]

\* the common tail with the risk scores computed before the velocity
\* and the history entry
FinishUpdateRiskFirst(p, event_type, event_data, current_time, clk, file) ==
  IF VelocityRaises(p, event_type) THEN Outcome(p, "KeyError", file)
  ELSE SaveProfile(
         RecordChange(
           UpdateVelocityMetrics(UpdateRiskScores(p), event_type, current_time),
           event_type, event_data, clk))

\* the common tail with the object put back as it was handed in when the
\* save raises
FinishUpdateRollback(p, event_type, event_data, current_time, clk, file) ==
  LET out == IF VelocityRaises(p, event_type) THEN Outcome(p, "KeyError", file)
             ELSE SaveProfile(
                    UpdateRiskScores(
                      RecordChange(
                        UpdateVelocityMetrics(p, event_type, current_time),
                        event_type, event_data, clk)))
  IN  IF out.raised = "TypeError" THEN Outcome(p, out.raised, out.file)
      ELSE out

\* The common tail of the four update methods: velocity, history entry,
\* risk scores, save.  An exception ends the method where it is raised and
\* leaves the mutations made so far in the object.
FinishUpdate(p, event_type, event_data, current_time, clk, file) ==
  IF VelocityRaises(p, event_type) THEN Outcome(p, "KeyError", file)
  ELSE SaveProfile(
         UpdateRiskScores(
           RecordChange(
             UpdateVelocityMetrics(p, event_type, current_time),
             event_type, event_data, clk)))

\* update_with_login with the interval average taken over the intervals
\* (total_logins - 1 of them) instead of over the logins
UpdateWithLoginMeanOfGaps(p, login_event, clk, file) ==
  LET current_time == FromIsoFormat(login_event.timestamp)
      lm == p.login_metrics
      total == lm.total_logins + 1
      counted == [p EXCEPT !.login_metrics.total_logins = total]
      devices == [counted EXCEPT !.login_metrics.unique_devices =
                                   Cardinality({login_event.device_type})]
      ips == [devices EXCEPT !.login_metrics.unique_ips =
                               Cardinality({login_event.ip_address})]
      avg == IF lm.last_login_time # None /\ total > 1
             THEN LET interval == Float(current_time - lm.last_login_time[1])
                  IN  RDiv(RAdd(RMul(lm.avg_login_interval, Float(total - 2)),
                                interval),
                           Float(total - 1))
             ELSE lm.avg_login_interval
      p1 == [p EXCEPT !.login_metrics =
               [lm EXCEPT !.total_logins = total,
                          !.unique_devices = Cardinality({login_event.device_type}),
                          !.unique_ips = Cardinality({login_event.ip_address}),
                          !.unique_locations = Cardinality({login_event.geolocation}),
                          !.avg_login_interval = avg,
                          !.last_login_time = Some(current_time)]]
  IN  IF TimestampError(login_event, "timestamp") # ""
      THEN Outcome(p, TimestampError(login_event, "timestamp"), file)
      ELSE IF "device_type" \notin DOMAIN login_event
      THEN Outcome(counted, "KeyError", file)
      ELSE IF "ip_address" \notin DOMAIN login_event
      THEN Outcome(devices, "KeyError", file)
      ELSE IF "geolocation" \notin DOMAIN login_event
      THEN Outcome(ips, "KeyError", file)
      ELSE FinishUpdate(p1, "login", login_event, current_time, clk, file)

\* FraudProfile.update_with_login
UpdateWithLogin(p, login_event, clk, file) ==
  LET current_time == FromIsoFormat(login_event.timestamp)
      lm == p.login_metrics
      total == lm.total_logins + 1
      \* the object after line 108, after line 109 and after line 110
      counted == [p EXCEPT !.login_metrics.total_logins = total]
      devices == [counted EXCEPT !.login_metrics.unique_devices =
                                   Cardinality({login_event.device_type})]
      ips == [devices EXCEPT !.login_metrics.unique_ips =
                               Cardinality({login_event.ip_address})]
      avg == IF lm.last_login_time # None
             THEN LET interval == Float(current_time - lm.last_login_time[1])
                  IN  RDiv(RAdd(RMul(lm.avg_login_interval, Float(total - 1)),
                                interval),
                           Float(total))
             ELSE lm.avg_login_interval
      p1 == [p EXCEPT !.login_metrics =
               [lm EXCEPT !.total_logins = total,
                          !.unique_devices = Cardinality({login_event.device_type}),
                          !.unique_ips = Cardinality({login_event.ip_address}),
                          !.unique_locations = Cardinality({login_event.geolocation}),
                          !.avg_login_interval = avg,
                          !.last_login_time = Some(current_time)]]
  IN  IF TimestampError(login_event, "timestamp") # ""
      THEN Outcome(p, TimestampError(login_event, "timestamp"), file)
      ELSE IF "device_type" \notin DOMAIN login_event
      THEN Outcome(counted, "KeyError", file)
      ELSE IF "ip_address" \notin DOMAIN login_event
      THEN Outcome(devices, "KeyError", file)
      ELSE IF "geolocation" \notin DOMAIN login_event
      THEN Outcome(ips, "KeyError", file)
      ELSE FinishUpdate(p1, "login", login_event, current_time, clk, file)

\* max_amount = max(self.transaction_metrics.max_amount, amount)
NewMaxAmount(max_amount, amount) == RMax(max_amount, amount)

\* update_with_transaction with unique_merchants counting the distinct
\* merchants of the history and of the event
UpdateWithTransactionDistinctMerchants(p, transaction_event, clk, file) ==
  LET current_time == FromIsoFormat(transaction_event.timestamp)
      amount == Float(transaction_event.amount)
      tm == p.transaction_metrics
      total == tm.total_transactions + 1
      total_amount == RAdd(tm.total_amount, amount)
      past == EntriesOf(p.historical_changes, "transaction")
      counted == [p EXCEPT !.transaction_metrics =
                    [tm EXCEPT !.total_transactions = total,
                               !.total_amount = total_amount,
                               !.avg_amount = RDiv(total_amount, Float(total)),
                               !.max_amount = NewMaxAmount(tm.max_amount, amount)]]
      p1 == [counted EXCEPT !.transaction_metrics.unique_merchants =
                              Cardinality({past[i].event_data.merchant_id :
                                             i \in DOMAIN past}
                                          \cup {transaction_event.merchant_id})]
  IN  IF TimestampError(transaction_event, "timestamp") # ""
      THEN Outcome(p, TimestampError(transaction_event, "timestamp"), file)
      ELSE IF "amount" \notin DOMAIN transaction_event
      THEN Outcome(p, "KeyError", file)
      ELSE IF "merchant_id" \notin DOMAIN transaction_event
      THEN Outcome(counted, "KeyError", file)
      ELSE FinishUpdate(p1, "transaction", transaction_event, current_time,
                        clk, file)

\* FraudProfile.update_with_transaction
UpdateWithTransaction(p, transaction_event, clk, file) ==
  LET current_time == FromIsoFormat(transaction_event.timestamp)
      amount == Float(transaction_event.amount)
      tm == p.transaction_metrics
      total == tm.total_transactions + 1
      total_amount == RAdd(tm.total_amount, amount)
      \* the object after lines 140-148
      counted == [p EXCEPT !.transaction_metrics =
                    [tm EXCEPT !.total_transactions = total,
                               !.total_amount = total_amount,
                               !.avg_amount = RDiv(total_amount, Float(total)),
                               !.max_amount = NewMaxAmount(tm.max_amount, amount)]]
      p1 == [counted EXCEPT !.transaction_metrics.unique_merchants =
                              Cardinality({transaction_event.merchant_id})]
  IN  IF TimestampError(transaction_event, "timestamp") # ""
      THEN Outcome(p, TimestampError(transaction_event, "timestamp"), file)
      ELSE IF "amount" \notin DOMAIN transaction_event
      THEN Outcome(p, "KeyError", file)
      ELSE IF "merchant_id" \notin DOMAIN transaction_event
      THEN Outcome(counted, "KeyError", file)
      ELSE FinishUpdate(p1, "transaction", transaction_event, current_time,
                        clk, file)

\* update_with_session with total_sessions += 1 moved ahead of the parse
UpdateWithSessionCountFirst(p, session_event, clk, file) ==
  LET current_time == FromIsoFormat(session_event.start_time)
      duration == Float(session_event.session_duration)
      sm == p.session_metrics
      total == sm.total_sessions + 1
      p1 == [p EXCEPT !.session_metrics =
               [sm EXCEPT !.total_sessions = total,
                          !.avg_session_duration =
                             RDiv(RAdd(RMul(sm.avg_session_duration,
                                            Float(total - 1)),
                                       duration),
                                  Float(total)),
                          !.max_session_duration =
                             RMax(sm.max_session_duration, duration)]]
  IN  IF TimestampError(session_event, "start_time") # ""
      THEN Outcome([p EXCEPT !.session_metrics.total_sessions = total],
                   TimestampError(session_event, "start_time"), file)
      ELSE IF "session_duration" \notin DOMAIN session_event
      THEN Outcome(p, "KeyError", file)
      ELSE FinishUpdate(p1, "session", session_event, current_time, clk, file)

\* FraudProfile.update_with_session
UpdateWithSession(p, session_event, clk, file) ==
  LET current_time == FromIsoFormat(session_event.start_time)
      duration == Float(session_event.session_duration)
      sm == p.session_metrics
      total == sm.total_sessions + 1
      p1 == [p EXCEPT !.session_metrics =
               [sm EXCEPT !.total_sessions = total,
                          !.avg_session_duration =
                             RDiv(RAdd(RMul(sm.avg_session_duration,
                                            Float(total - 1)),
                                       duration),
                                  Float(total)),
                          !.max_session_duration =
                             RMax(sm.max_session_duration, duration)]]
  IN  IF TimestampError(session_event, "start_time") # ""
      THEN Outcome(p, TimestampError(session_event, "start_time"), file)
      ELSE IF "session_duration" \notin DOMAIN session_event
      THEN Outcome(p, "KeyError", file)
      ELSE FinishUpdate(p1, "session", session_event, current_time, clk, file)

\* event_data.get("frequency", 0.0)
FrequencyOfDefaultZero(event_data) ==
  IF "frequency" \in DOMAIN event_data THEN Float(event_data.frequency)
  ELSE Float(0)

\* event_data.get("frequency", 1.0)
FrequencyOf(event_data) ==
  IF "frequency" \in DOMAIN event_data THEN Float(event_data.frequency)
  ELSE Float(1)

\* FraudProfile.update_with_feature_usage
UpdateWithFeatureUsage(p, feature_event, clk, file) ==
  LET current_time == FromIsoFormat(feature_event.timestamp)
      frequency == FrequencyOf(feature_event)
      fm == p.feature_usage_metrics
      total == fm.feature_usage_count + 1
      total_frequency == RAdd(fm.total_frequency, frequency)
      past == EntriesOf(p.historical_changes, "feature_usage")
      freq_values == Append([i \in DOMAIN past |-> FrequencyOf(past[i].event_data)],
                            frequency)
      p1 == [p EXCEPT !.feature_usage_metrics =
               [fm EXCEPT !.feature_usage_count = total,
                          !.total_frequency = total_frequency,
                          !.avg_feature_frequency =
                             RDiv(total_frequency, Float(total)),
                          !.std_feature_frequency =
                             IF Len(freq_values) > 1 THEN NpStd(freq_values)
                             ELSE RZero]]
  IN  IF TimestampError(feature_event, "timestamp") # ""
      THEN Outcome(p, TimestampError(feature_event, "timestamp"), file)
      ELSE FinishUpdate(p1, "feature_usage", feature_event, current_time,
                        clk, file)

\* the update method of each event type
UpdateWith(event_type, p, event, clk, file) ==
  IF event_type = "login" THEN UpdateWithLogin(p, event, clk, file)
  ELSE IF event_type = "transaction" THEN UpdateWithTransaction(p, event, clk, file)
  ELSE IF event_type = "session" THEN UpdateWithSession(p, event, clk, file)
  ELSE UpdateWithFeatureUsage(p, event, clk, file)

\* ------------------------------------------------------------ event inputs
LoginEvents ==
  [timestamp : {IsoFormat(t) : t \in LoginTimes}, device_type : {"Mobile"},
   ip_address : {"1.1.1.1"}, geolocation : {"10,10"}]

TransactionEvents ==
  [timestamp : {IsoFormat(t) : t \in OtherTimes}, amount : Amounts,
   merchant_id : {"m1"}]

SessionEvents ==
  [start_time : {IsoFormat(t) : t \in OtherTimes}, session_duration : Durations]

FeatureEvents ==
  [timestamp : {IsoFormat(t) : t \in OtherTimes}, feature_name : {"transfer"},
   frequency : Frequencies]
  \cup [timestamp : {IsoFormat(0)}, feature_name : {"transfer"}]

EventsOf(event_type) ==
  IF event_type = "login" THEN LoginEvents
  ELSE IF event_type = "transaction" THEN TransactionEvents
  ELSE IF event_type = "session" THEN SessionEvents
  ELSE FeatureEvents

\* the events sent over HTTP: one of each type from the sets above
HttpEvents(event_type) ==
  IF event_type = "login"
  THEN {e \in LoginEvents : FromIsoFormat(e.timestamp) = 600}
  ELSE IF event_type = "transaction"
  THEN {e \in TransactionEvents : e.amount = 300}
  ELSE IF event_type = "session"
  THEN {e \in SessionEvents : e.session_duration = 7200}
  ELSE {e \in FeatureEvents : FrequencyOf(e) = Float(5)}

\* the instant an event says it happened at
EventTime(event_type, event) ==
  IF event_type = "session" THEN FromIsoFormat(event.start_time)
  ELSE FromIsoFormat(event.timestamp)

\* ------------------------------------------- events the methods reject
\* the event without one of its keys
Without(event, key) == [k \in DOMAIN event \ {key} |-> event[k]]

\* the key that carries the event's time
TimeKey(event_type) ==
  IF event_type = "session" THEN "start_time" ELSE "timestamp"

\* the keys an update method reads as event[key] besides the time
RequiredFields(event_type) ==
  IF event_type = "login" THEN {"device_type", "ip_address", "geolocation"}
  ELSE IF event_type = "transaction" THEN {"amount", "merchant_id"}
  ELSE IF event_type = "session" THEN {"session_duration"}
  ELSE {}

\* events whose time is not an ISO string or, for a login, is not there
UnparsableEvents(event_type) ==
  {[e EXCEPT ![TimeKey(event_type)] = NotADate] : e \in HttpEvents(event_type)}
  \cup {Without(e, TimeKey(event_type)) :
          e \in IF event_type = "login" THEN HttpEvents(event_type) ELSE {}}

\* events with a good time that lack one of the other required keys
IncompleteEvents(event_type) ==
  {Without(e, f) : e \in HttpEvents(event_type), f \in RequiredFields(event_type)}

\* -------------------------------------------------------- anomaly detector
\* raw values IsolationForest.score_samples can return (always negative)
ScoreSamples == {Rat(-7, 10), Rat(-4, 10)}

\* AnomalyDetector.__init__: no scaler and no model is fitted
UnfittedBank ==
  [n_files |-> 0,
   scaler_fitted |-> [t \in EventTypes |-> FALSE],
   model_fitted |-> [t \in EventTypes |-> FALSE]]

\* AnomalyDetector._initialize_models.  One feature row per profile file is
\* collected first; a file that does not parse raises inside the try block
\* and nothing is fitted.  Then scaler and model are fitted per type in the
\* order login, transaction, session, feature_usage.  LocalOutlierFactor.fit
\* raises on a single row (it needs a neighbour), which ends the loop with
\* the transaction scaler fitted and the two later types untouched.
InitializeModels(files) ==
  LET present == {u \in DOMAIN files : files[u].kind # "absent"}
      rows == {u \in present : files[u].kind = "json"}
      lof_fits == Cardinality(rows) >= 2
  IN  IF present = {} \/ rows # present
      THEN [UnfittedBank EXCEPT !.n_files = Cardinality(present)]
      ELSE [n_files |-> Cardinality(present),
            scaler_fitted |->
              [t \in EventTypes |->
                 t \in {"login", "transaction"} \/ lof_fits],
            model_fitted |->
              [t \in EventTypes |-> t = "login" \/ lof_fits]]

\* AnomalyDetector._extract_features
ExtractFeatures(p, event_type, event_data) ==
  IF event_type = "login"
  THEN <<Float(p.login_metrics.login_velocity_24h),
         Float(p.login_metrics.unique_locations),
         Float(p.login_metrics.unique_devices),
         p.login_metrics.avg_login_interval>>
  ELSE IF event_type = "transaction"
  THEN <<Float(p.transaction_metrics.transaction_velocity_24h),
         Float(event_data.amount),
         p.transaction_metrics.avg_amount,
         Float(p.transaction_metrics.unique_merchants)>>
  ELSE IF event_type = "feature_usage"
  THEN <<Float(p.feature_usage_metrics.feature_usage_velocity_24h),
         Float(p.feature_usage_metrics.unique_features_used),
         p.feature_usage_metrics.avg_feature_frequency,
         p.feature_usage_metrics.std_feature_frequency,
         p.feature_usage_metrics.total_frequency>>
  ELSE <<Float(p.session_metrics.session_velocity_24h),
         Float(event_data.session_duration),
         p.session_metrics.avg_session_duration,
         Float(p.session_metrics.total_sessions)>>

\* Python's None in a risk_factors slot (null in the JSON response)
Null == "null"

\* a slot that reports its label whether or not the condition holds
FactorAlways(label, condition) == label

\* "<label>" if <condition> else None
Factor(label, condition) == IF condition THEN label ELSE Null

\* AnomalyDetector._generate_explanation: the feature values under their
\* names, the score, and one risk_factors slot per threshold
GenerateExplanation(event_type, features, score) ==
  IF event_type = "login"
  THEN [velocity_24h |-> features[1], unique_locations |-> features[2],
        unique_devices |-> features[3], avg_interval |-> features[4],
        anomaly_score |-> score,
        risk_factors |->
          <<Factor("High login velocity", RLt(Float(10), features[1])),
            Factor("Multiple locations", RLt(Float(3), features[2])),
            Factor("Multiple devices", RLt(Float(2), features[3]))>>]
  ELSE IF event_type = "transaction"
  THEN [velocity_24h |-> features[1], amount |-> features[2],
        avg_amount |-> features[3], unique_merchants |-> features[4],
        anomaly_score |-> score,
        risk_factors |->
          <<Factor("High transaction velocity", RLt(Float(20), features[1])),
            Factor("Large amount",
                   RLt(RMul(features[3], Float(2)), features[2])),
            Factor("Unusual merchant", RLt(Float(5), features[4]))>>]
  ELSE IF event_type = "feature_usage"
  THEN [velocity_24h |-> features[1], unique_features |-> features[2],
        avg_frequency |-> features[3], std_frequency |-> features[4],
        total_frequency |-> features[5], anomaly_score |-> score,
        risk_factors |->
          <<Factor("High feature usage velocity", RLt(Float(50), features[1])),
            Factor("Unusual number of features", RLt(Float(10), features[2])),
            Factor("Abnormal usage frequency", RLt(features[3], features[4])),
            Factor("High total frequency", RLt(Float(100), features[5]))>>]
  ELSE [velocity_24h |-> features[1], duration |-> features[2],
        avg_duration |-> features[3], total_sessions |-> features[4],
        anomaly_score |-> score,
        risk_factors |->
          <<Factor("High session velocity", RLt(Float(15), features[1])),
            Factor("Long duration", RLt(Float(3600), features[2])),
            Factor("Multiple sessions", RLt(Float(10), features[4]))>>]

\* _initialize_models, lines 52-97: the row one persisted snapshot
\* contributes to the fit of each type, read from its stored metrics
FitFeatures(data, event_type) ==
  IF event_type = "login"
  THEN <<Float(data.login_metrics.login_velocity_24h),
         Float(data.login_metrics.unique_locations),
         Float(data.login_metrics.unique_devices),
         data.login_metrics.avg_login_interval>>
  ELSE IF event_type = "transaction"
  THEN <<Float(data.transaction_metrics.transaction_velocity_24h),
         data.transaction_metrics.avg_amount,
         data.transaction_metrics.max_amount,
         Float(data.transaction_metrics.unique_merchants)>>
  ELSE IF event_type = "session"
  THEN <<Float(data.session_metrics.session_velocity_24h),
         data.session_metrics.avg_session_duration,
         data.session_metrics.max_session_duration,
         Float(data.session_metrics.total_sessions)>>
  ELSE <<Float(data.feature_usage_metrics.feature_usage_velocity_24h),
         Float(data.feature_usage_metrics.unique_features_used),
         data.feature_usage_metrics.avg_feature_frequency,
         data.feature_usage_metrics.std_feature_frequency,
         data.feature_usage_metrics.total_frequency>>

\* the quantity each position of a fit-time row is read from
FitColumns(event_type) ==
  IF event_type = "login"
  THEN <<"login_velocity_24h", "unique_locations", "unique_devices",
         "avg_login_interval">>
  ELSE IF event_type = "transaction"
  THEN <<"transaction_velocity_24h", "avg_amount", "max_amount",
         "unique_merchants">>
  ELSE IF event_type = "session"
  THEN <<"session_velocity_24h", "avg_session_duration",
         "max_session_duration", "total_sessions">>
  ELSE <<"feature_usage_velocity_24h", "unique_features_used",
         "avg_feature_frequency", "std_feature_frequency", "total_frequency">>

\* the quantity each position of _extract_features' vector is read from;
\* "event." marks a field of the incoming event
ScoringColumns(event_type) ==
  IF event_type = "login"
  THEN <<"login_velocity_24h", "unique_locations", "unique_devices",
         "avg_login_interval">>
  ELSE IF event_type = "transaction"
  THEN <<"transaction_velocity_24h", "event.amount", "avg_amount",
         "unique_merchants">>
  ELSE IF event_type = "session"
  THEN <<"session_velocity_24h", "event.session_duration",
         "avg_session_duration", "total_sessions">>
  ELSE <<"feature_usage_velocity_24h", "unique_features_used",
         "avg_feature_frequency", "std_feature_frequency", "total_frequency">>

\* a percentile that lies above the one sample it is taken from
PercentileAboveSample(value, q) == RAdd(value, ROne)

\* numpy.percentile of a one-element array: the element, whatever q is
PercentileOfOne(value, q) == value

\* the result of a detect_anomaly call that raised
NoResult ==
  [is_anomaly |-> FALSE, confidence |-> RZero, features |-> <<>>,
   explanation |-> [risk_factors |-> <<>>]]

Detection(raised, result) ==
  [called |-> TRUE, raised |-> raised, result |-> result]

\* no detect_anomaly call was made
NoDetection == [called |-> FALSE, raised |-> "", result |-> NoResult]

\* StandardScaler.transform raises NotFittedError on a scaler never fitted
ScalerTransformRaises(bank, event_type) == ~bank.scaler_fitted[event_type]

\* detect_anomaly answering with a default result when nothing is fitted
DetectAnomalyDefaultResult(bank, p, event_type, event_data, raw) ==
  Detection("", [is_anomaly |-> FALSE, confidence |-> RZero,
                 features |-> ExtractFeatures(p, event_type, event_data),
                 explanation |-> [risk_factors |-> <<>>]])

\* AnomalyDetector.detect_anomaly; raw is what score_samples returns.
\* LocalOutlierFactor built without novelty=True has no score_samples.
DetectAnomaly(bank, p, event_type, event_data, raw) ==
  LET features == ExtractFeatures(p, event_type, event_data)
  IN  IF ScalerTransformRaises(bank, event_type)
      THEN Detection("NotFittedError", NoResult)
      ELSE IF event_type = "transaction"
      THEN Detection("AttributeError", NoResult)
      ELSE IF ~bank.model_fitted[event_type]
      THEN Detection("NotFittedError", NoResult)
      ELSE LET score == IF event_type = "login" THEN raw
                        ELSE RMul(Float(-1), raw)
               is_anomaly ==
                 IF event_type = "login"
                 THEN RLt(score, PercentileOfOne(raw, 10))
                 ELSE RLt(PercentileOfOne(RMul(Float(-1), raw), 90), score)
           IN  Detection("",
                 [is_anomaly |-> is_anomaly,
                  confidence |-> [n |-> Abs(score.n), d |-> score.d],
                  features |-> features,
                  explanation |->
                    GenerateExplanation(event_type, features, score)])

\* ------------------------------------------------------------------ state
VARIABLES
  store,     \* profiles/<user_id>.json, per user
  profile,   \* the FraudProfile object the last operation worked on
  origin,    \* how that object came to be ("none", "fresh" or "loaded")
             \* and how many calls had been made before it was built
  bank,      \* the process-wide AnomalyDetector
  now,       \* the wall clock
  calls,     \* the update calls made on the object / the requests served
  last,      \* what the last operation was and how it ended
  units,     \* per worker: the request it is serving and the object it built
  batch      \* the create_user_features call made: its frames and its result

vars == <<store, profile, origin, bank, now, calls, last, units, batch>>

\* create_user_features has not been called
NoBatch == [called |-> FALSE]

\* the workers that serve requests side by side on one profiles directory
Units == {"w1", "w2"}

\* a worker between two requests
Idle == [pc |-> "idle"]

NoProfile == [user_id |-> "none"]

\* what an operation reports: the exception that ended it ("" when it
\* returned) and the detect_anomaly call it made, if any
Last(op, user, raised, detection) ==
  [op |-> op, user |-> user, raised |-> raised, detection |-> detection]

Call(event_type, user, event, clk, raised) ==
  [event_type |-> event_type, user |-> user, event |-> event, clk |-> clk,
   raised |-> raised]

Init ==
  /\ store = [u \in Users |-> NoFile]
  /\ profile = NoProfile
  /\ origin = [how |-> "none", at |-> 0]
  /\ bank = UnfittedBank
  /\ now \in ClockTimes
  /\ calls = <<>>
  /\ last = Last("start", "none", "", NoDetection)
  /\ units = [k \in Units |-> Idle]
  /\ batch = NoBatch

\* time passes between two operations
Tick ==
  /\ \E t \in ClockTimes : t > now /\ now' = t
  /\ UNCHANGED <<store, profile, origin, bank, calls, last, units, batch>>

\* ------------------------------------------- the engine, called directly
\* profile = FraudProfile(user_id)
Construct(u) ==
  \E out \in {NewFraudProfile(u, store[u], now)} :
      /\ profile' = IF out.raised = "" THEN out.profile ELSE NoProfile
      /\ origin' = [how |-> IF out.raised # "" THEN "none"
                            ELSE IF store[u].kind = "absent" THEN "fresh"
                            ELSE "loaded",
                    at |-> Len(calls)]
      /\ last' = Last("construct", u, out.raised, NoDetection)
      /\ UNCHANGED <<store, bank, now, calls, units, batch>>

\* profile.update_with_<event_type>(event)
CallUpdate(event_type, event) ==
  /\ profile # NoProfile
  /\ \E u \in {profile.user_id} :
     \E out \in {UpdateWith(event_type, profile, event, now, store[u])} :
         /\ profile' = out.profile
         /\ store' = [store EXCEPT ![u] = out.file]
         /\ calls' = Append(calls, Call(event_type, u, event, now, out.raised))
         /\ last' = Last(event_type, u, out.raised, NoDetection)
  /\ UNCHANGED <<origin, bank, now, units, batch>>

Update(event_type, event) ==
  /\ Len(calls) < MaxCalls
  /\ CallUpdate(event_type, event)

UpdateLogin == \E ev \in LoginEvents : Update("login", ev)
UpdateTransaction == \E ev \in TransactionEvents : Update("transaction", ev)
UpdateSession == \E ev \in SessionEvents : Update("session", ev)
UpdateFeatureUsage == \E ev \in FeatureEvents : Update("feature_usage", ev)

Next ==
  \/ Tick
  \/ \E u \in EngineUsers : Construct(u)
  \/ UpdateLogin
  \/ UpdateTransaction
  \/ UpdateSession
  \/ UpdateFeatureUsage

Spec == Init /\ [][Next]_vars

\* ------------------------- the engine, fed feature-usage events only
FeatureUsageCall ==
  /\ Len(calls) < MaxFeatureCalls
  /\ \E ev \in FeatureEvents : CallUpdate("feature_usage", ev)

NextFeatureUsage ==
  \/ Tick
  \/ \E u \in EngineUsers : Construct(u)
  \/ FeatureUsageCall

SpecFeatureUsage == Init /\ [][NextFeatureUsage]_vars

\* --------------------- the engine, called with good and with bad events
UpdateWellFormed ==
  \E t \in EventTypes : \E ev \in HttpEvents(t) : Update(t, ev)

UpdateUnparsable ==
  \E t \in EventTypes : \E ev \in UnparsableEvents(t) : Update(t, ev)

UpdateIncomplete ==
  \E t \in EventTypes : \E ev \in IncompleteEvents(t) : Update(t, ev)

NextValidation ==
  \/ Tick
  \/ \E u \in EngineUsers : Construct(u)
  \/ UpdateWellFormed
  \/ UpdateUnparsable
  \/ UpdateIncomplete

SpecValidation == Init /\ [][NextValidation]_vars

\* ------------- the engine, fed logins and transactions that differ in
\* ------------- device, address, location and merchant
VariedLoginEvents ==
  [timestamp : {IsoFormat(600)}, device_type : {"Mobile", "Desktop"},
   ip_address : {"1.1.1.1", "2.2.2.2"}, geolocation : {"10,10", "20,20"}]

VariedTransactionEvents ==
  [timestamp : {IsoFormat(0)}, amount : {100}, merchant_id : {"m1", "m2"}]

UpdateVariedLogin == \E ev \in VariedLoginEvents : Update("login", ev)

UpdateVariedTransaction ==
  \E ev \in VariedTransactionEvents : Update("transaction", ev)

NextVaried ==
  \/ Tick
  \/ \E u \in EngineUsers : Construct(u)
  \/ UpdateVariedLogin
  \/ UpdateVariedTransaction

SpecVaried == Init /\ [][NextVaried]_vars

\* ------------- the explanation generator, called on feature vectors
\* ------------- whose values lie on and just above every threshold
FeatureVectors(event_type) ==
  IF event_type = "login"
  THEN {<<Float(v), Float(l), Float(d), Float(300)>> :
          v \in {10, 11}, l \in {3, 4}, d \in {2, 3}}
  ELSE IF event_type = "transaction"
  THEN {<<Float(v), Float(a), Float(100), Float(m)>> :
          v \in {20, 21}, a \in {200, 201}, m \in {5, 6}}
  ELSE IF event_type = "feature_usage"
  THEN {<<Float(v), Float(u), Float(5), s, Float(t)>> :
          v \in {50, 51}, u \in {10, 11}, s \in {Float(5), Rat(11, 2)},
          t \in {100, 101}}
  ELSE {<<Float(v), Float(d), Float(60), Float(n)>> :
          v \in {15, 16}, d \in {3600, 3601}, n \in {10, 11}}

\* explanation = self._generate_explanation(profile, event_type,
\* event_data, features, score)
Explain ==
  /\ \E t \in EventTypes : \E f \in FeatureVectors(t) : \E score \in ScoreSamples :
        last' = Last(t, "none", "",
                     Detection("", [is_anomaly |-> FALSE,
                                    confidence |-> [n |-> Abs(score.n), d |-> score.d],
                                    features |-> f,
                                    explanation |-> GenerateExplanation(t, f, score)]))
  /\ UNCHANGED <<store, profile, origin, bank, now, calls, units, batch>>

NextExplanation ==
  \/ Tick
  \/ Explain

SpecExplanation == Init /\ [][NextExplanation]_vars

\* ------------- the engine, fed events of every kind whose times lie
\* ------------- inside and far outside the two velocity windows
WindowTimes == {0, 800000}

WindowEvents(event_type) ==
  IF event_type = "login"
  THEN [timestamp : {IsoFormat(t) : t \in WindowTimes}, device_type : {"Mobile"},
        ip_address : {"1.1.1.1"}, geolocation : {"10,10"}]
  ELSE IF event_type = "transaction"
  THEN [timestamp : {IsoFormat(t) : t \in WindowTimes}, amount : {300},
        merchant_id : {"m1"}]
       \cup [timestamp : {IsoFormat(0)}, amount : {-1000}, merchant_id : {"m1"}]
  ELSE IF event_type = "session"
  THEN [start_time : {IsoFormat(t) : t \in WindowTimes}, session_duration : {7200}]
  ELSE [timestamp : {IsoFormat(t) : t \in WindowTimes},
        feature_name : {"transfer"}, frequency : {1}]
       \cup [timestamp : {IsoFormat(0)}, feature_name : {"transfer"},
             frequency : {5}]

UpdateInWindows ==
  \E t \in EventTypes : \E ev \in WindowEvents(t) : Update(t, ev)

NextWindows ==
  \/ Tick
  \/ \E u \in EngineUsers : Construct(u)
  \/ UpdateInWindows

SpecWindows == Init /\ [][NextWindows]_vars

\* ------------------------------------------------------- the HTTP layer
\* anomaly_detector = AnomalyDetector(), run when the process starts
StartProcess ==
  /\ bank' = InitializeModels(store)
  /\ profile' = NoProfile
  /\ origin' = [how |-> "none", at |-> Len(calls)]
  /\ last' = Last("start", "none", "", NoDetection)
  /\ UNCHANGED <<store, now, calls, units, batch>>

\* get_profile: build the object, return its fields
Read(op, u) ==
  \E out \in {NewFraudProfile(u, store[u], now)} :
      /\ profile' = IF out.raised = "" THEN out.profile ELSE NoProfile
      /\ origin' = [how |-> IF out.raised # "" THEN "none"
                            ELSE IF store[u].kind = "absent" THEN "fresh"
                            ELSE "loaded",
                    at |-> Len(calls)]
      /\ last' = Last(op, u, out.raised, NoDetection)
      /\ UNCHANGED <<store, bank, now, calls, units, batch>>

GetProfile == \E u \in Users : Read("get_profile", u)

\* the counter incremented whatever is_anomaly says
CountSuspiciousAlways(p, event_type, is_anomaly) ==
  IF event_type = "login"
  THEN [p EXCEPT !.login_metrics.suspicious_login_count = @ + 1]
  ELSE IF event_type = "transaction"
  THEN [p EXCEPT !.transaction_metrics.suspicious_transaction_count = @ + 1]
  ELSE p

\* if is_anomaly: profile.<group>.suspicious_<kind>_count += 1
CountSuspicious(p, event_type, is_anomaly) ==
  IF ~is_anomaly THEN p
  ELSE IF event_type = "login"
  THEN [p EXCEPT !.login_metrics.suspicious_login_count = @ + 1]
  ELSE IF event_type = "transaction"
  THEN [p EXCEPT !.transaction_metrics.suspicious_transaction_count = @ + 1]
  ELSE p

\* the handler body with the event applied before it is scored
HandleUpdateFirst(event_type, scored, u, event, raw) ==
  LET built == NewFraudProfile(u, store[u], now)
      out == UpdateWith(event_type, built.profile, event, now, store[u])
      det == IF scored THEN DetectAnomaly(bank, out.profile, event_type, event, raw)
             ELSE NoDetection
  IN  IF built.raised # ""
      THEN [profile |-> NoProfile, raised |-> built.raised, file |-> store[u],
            detection |-> NoDetection, how |-> "none"]
      ELSE IF out.raised # ""
      THEN [profile |-> out.profile, raised |-> out.raised, file |-> out.file,
            detection |-> NoDetection,
            how |-> IF store[u].kind = "absent" THEN "fresh" ELSE "loaded"]
      ELSE [profile |-> out.profile, raised |-> det.raised, file |-> out.file,
            detection |-> det,
            how |-> IF store[u].kind = "absent" THEN "fresh" ELSE "loaded"]

\* the handler body with the event applied although scoring raised
HandleApplyAnyway(event_type, scored, u, event, raw) ==
  LET built == NewFraudProfile(u, store[u], now)
      det == IF scored THEN DetectAnomaly(bank, built.profile, event_type, event, raw)
             ELSE NoDetection
      out == UpdateWith(event_type,
               CountSuspicious(built.profile, event_type, det.result.is_anomaly),
               event, now, store[u])
  IN  IF built.raised # ""
      THEN [profile |-> NoProfile, raised |-> built.raised, file |-> store[u],
            detection |-> NoDetection, how |-> "none"]
      ELSE [profile |-> out.profile,
            raised |-> IF det.raised # "" THEN det.raised ELSE out.raised,
            file |-> out.file, detection |-> det,
            how |-> IF store[u].kind = "absent" THEN "fresh" ELSE "loaded"]

\* The body of process_login, process_transaction, process_feature_usage
\* (scored = TRUE) and process_session (scored = FALSE): any exception ends
\* the handler with status 400.
Handle(event_type, scored, u, event, raw) ==
  LET built == NewFraudProfile(u, store[u], now)
      det == IF scored THEN DetectAnomaly(bank, built.profile, event_type, event, raw)
             ELSE NoDetection
  IN  IF built.raised # ""
      THEN [profile |-> NoProfile, raised |-> built.raised, file |-> store[u],
            detection |-> NoDetection, how |-> "none"]
      ELSE IF det.raised # ""
      THEN [profile |-> built.profile, raised |-> det.raised, file |-> store[u],
            detection |-> det,
            how |-> IF store[u].kind = "absent" THEN "fresh" ELSE "loaded"]
      ELSE LET out == UpdateWith(event_type,
                        CountSuspicious(built.profile, event_type,
                                        det.result.is_anomaly),
                        event, now, store[u])
           IN  [profile |-> out.profile, raised |-> out.raised,
                file |-> out.file, detection |-> det,
                how |-> IF store[u].kind = "absent" THEN "fresh" ELSE "loaded"]

Process(event_type, scored, u, event, raw) ==
  /\ Len(calls) < MaxRequests
  /\ \E h \in {Handle(event_type, scored, u, event, raw)} :
       /\ profile' = h.profile
       /\ origin' = [how |-> h.how, at |-> Len(calls)]
       /\ store' = [store EXCEPT ![u] = h.file]
       /\ calls' = Append(calls, Call(event_type, u, event, now, h.raised))
       /\ last' = Last(event_type, u, h.raised, h.detection)
  /\ UNCHANGED <<bank, now, units, batch>>

ProcessLogin ==
  \E u \in Users, ev \in HttpEvents("login"), raw \in ScoreSamples :
     Process("login", TRUE, u, ev, raw)

ProcessTransaction ==
  \E u \in Users, ev \in HttpEvents("transaction"), raw \in ScoreSamples :
     Process("transaction", TRUE, u, ev, raw)

ProcessSession ==
  \E u \in Users, ev \in HttpEvents("session") : Process("session", FALSE, u, ev, RZero)

ProcessFeatureUsage ==
  \E u \in Users, ev \in HttpEvents("feature_usage"), raw \in ScoreSamples :
     Process("feature_usage", TRUE, u, ev, raw)

NextHttp ==
  \/ Tick
  \/ StartProcess
  \/ GetProfile
  \/ ProcessLogin
  \/ ProcessTransaction
  \/ ProcessSession
  \/ ProcessFeatureUsage

SpecHttp == Init /\ [][NextHttp]_vars

\* ------------------------------------------------------ batch ingestion
\* pandas.to_datetime of an ISO string: a Timestamp, which is not a str
ToDatetime(s) == [ns |-> FromIsoFormat(s)]

\* isinstance(value, str)
IsStr(value) == "iso" \in DOMAIN value \/ "text" \in DOMAIN value

\* df[column] = pd.to_datetime(df[column])
ConvertColumn(df, column) ==
  [i \in DOMAIN df |-> [df[i] EXCEPT ![column] = ToDatetime(@)]]

\* df["user_id"].unique(): the ids in order of first appearance
RECURSIVE Unique(_)
Unique(df) ==
  IF df = <<>> THEN <<>>
  ELSE LET init == Unique(SubSeq(df, 1, Len(df) - 1))
           id == df[Len(df)].user_id
       IN  IF \E i \in DOMAIN init : init[i] = id THEN init
           ELSE Append(init, id)

\* df.sort_values(column) on a converted column
RECURSIVE SortValues(_, _)
SortValues(df, column) ==
  IF df = <<>> THEN <<>>
  ELSE LET row == Head(df)
           rest == SortValues(Tail(df), column)
       IN  SelectSeq(rest, LAMBDA r : r[column].ns < row[column].ns)
           \o <<row>>
           \o SelectSeq(rest, LAMBDA r : r[column].ns >= row[column].ns)

\* df[df["user_id"] == user_id].sort_values(column)
UserRows(df, user_id, column) ==
  SortValues(SelectSeq(df, LAMBDA r : r.user_id = user_id), column)

\* for _, row in rows.iterrows():
\*     if isinstance(row_dict[column], str): profile.update_with_<type>(row_dict)
\* An exception of the update method ends create_user_features.  (The
\* outcome of each row is bound as a set element, so that it is a value.)
RECURSIVE ReplayRows(_, _, _, _)
ReplayRows(out, event_type, rows, clk) ==
  IF rows = <<>> \/ out.raised # "" THEN out
  ELSE CHOOSE result \in
         {ReplayRows(next, event_type, Tail(rows), clk) :
            next \in {IF IsStr(Head(rows)[TimeKey(event_type)])
                      THEN UpdateWith(event_type, out.profile, Head(rows), clk,
                                      out.file)
                      ELSE out}} : TRUE

\* one pass of the loop over logins_df["user_id"].unique(): the object is
\* built, the four kinds of rows are replayed, the object goes in the dict
ProcessUser(user_id, frames, files, clk) ==
  CHOOSE done \in
    {ReplayRows(transactions, "feature_usage",
                UserRows(frames.feature_usage, user_id, "timestamp"), clk) :
       transactions \in
         {ReplayRows(sessions, "transaction",
                     UserRows(frames.transactions, user_id, "timestamp"), clk) :
            sessions \in
              {ReplayRows(logins, "session",
                          UserRows(frames.sessions, user_id, "start_time"), clk) :
                 logins \in
                   {ReplayRows(built, "login",
                               UserRows(frames.logins, user_id, "timestamp"), clk) :
                      built \in {NewFraudProfile(user_id, files[user_id], clk)}}}}}
    : TRUE

\* the loop over logins_df["user_id"].unique(); acc holds the dict built so
\* far, the exception raised and the files
RECURSIVE ProcessEachUser(_, _, _, _)
ProcessEachUser(user_ids, frames, acc, clk) ==
  IF user_ids = <<>> \/ acc.raised # "" THEN acc
  ELSE CHOOSE result \in
         {ProcessEachUser(Tail(user_ids), frames,
            [profiles |->
               IF done.raised # "" THEN acc.profiles
               ELSE [v \in DOMAIN acc.profiles \cup {Head(user_ids)} |->
                       IF v = Head(user_ids) THEN done.profile
                       ELSE acc.profiles[v]],
             raised |-> done.raised,
             files |-> [acc.files EXCEPT ![Head(user_ids)] = done.file]],
            clk) :
          done \in {ProcessUser(Head(user_ids), frames, acc.files, clk)}} : TRUE

\* create_user_features: the dict it returns, the exception that ended it
\* ("" when it returned) and the files it left
CreateUserFeatures(logins_df, sessions_df, transactions_df, feature_usage_df, files, clk) ==
  LET frames == [logins |-> ConvertColumn(logins_df, "timestamp"),
                 sessions |-> ConvertColumn(sessions_df, "start_time"),
                 transactions |-> ConvertColumn(transactions_df, "timestamp"),
                 feature_usage |-> ConvertColumn(feature_usage_df, "timestamp")]
  IN  ProcessEachUser(Unique(frames.logins), frames,
        [profiles |-> <<>>, raised |-> "", files |-> files], clk)

\* the rows of the four input frames: an event and the account it is for
RowsFrom(events) ==
  {[k \in DOMAIN e \cup {"user_id"} |-> IF k = "user_id" THEN u ELSE e[k]] :
     e \in events, u \in Users}

\* the frames of at most two rows
Frames(rows) ==
  {<<>>} \cup {<<r>> : r \in rows} \cup {<<r1, r2>> : r1 \in rows, r2 \in rows}

LoginFrames ==
  Frames(RowsFrom({e \in LoginEvents : FromIsoFormat(e.timestamp) \in {600, 1200}}))

\* profiles = create_user_features(logins_df, sessions_df, transactions_df,
\*                                 feature_usage_df)
Ingest ==
  /\ batch = NoBatch
  /\ \E logins_df \in LoginFrames,
        sessions_df \in Frames(RowsFrom(HttpEvents("session"))),
        transactions_df \in Frames(RowsFrom(HttpEvents("transaction"))),
        feature_usage_df \in Frames(RowsFrom(HttpEvents("feature_usage"))) :
     \E out \in {CreateUserFeatures(logins_df, sessions_df, transactions_df,
                                    feature_usage_df, store, now)} :
        /\ batch' = [called |-> TRUE, logins |-> logins_df,
                     sessions |-> sessions_df,
                     transactions |-> transactions_df,
                     feature_usage |-> feature_usage_df,
                     raised |-> out.raised, profiles |-> out.profiles]
        /\ store' = out.files
  /\ UNCHANGED <<profile, origin, bank, now, calls, last, units>>

NextBatch ==
  \/ Tick
  \/ Ingest

SpecBatch == Init /\ [][NextBatch]_vars

\* ------------------------------------- handlers running side by side
\* Each worker runs the handlers of api.py with its own detector, built
\* when the store was still empty.  Nothing in FraudProfile or in the
\* handlers takes a lock, so between the load in FraudProfile(user_id) and
\* the update call that ends with the save the other worker may run.

\* process_session is the handler that does not call detect_anomaly
Scored(event_type) == event_type # "session"

\* the requests a worker has loaded the profile for and not yet finished
InFlight == {k \in Units : units[k] # Idle}

\* profile = FraudProfile(user_id), the first statement of a handler; an
\* exception ends the request at once with status 400
UnitLoad(k) ==
  /\ units[k] = Idle
  /\ Len(calls) + Cardinality(InFlight) < MaxRequests
  /\ \E u \in Users, t \in EventTypes :
     \E ev \in HttpEvents(t) :
     \E built \in {NewFraudProfile(u, store[u], now)} :
        /\ units' = IF built.raised # "" THEN units
                     ELSE [units EXCEPT ![k] =
                             [pc |-> "loaded", user |-> u, event_type |-> t,
                              event |-> ev, profile |-> built.profile]]
        /\ calls' = IF built.raised = "" THEN calls
                     ELSE Append(calls, Call(t, u, ev, now, built.raised))
        /\ last' = IF built.raised = "" THEN last
                    ELSE Last(t, u, built.raised, NoDetection)
        /\ profile' = IF built.raised = "" THEN profile ELSE NoProfile
        /\ origin' = IF built.raised = "" THEN origin
                      ELSE [how |-> "none", at |-> Len(calls)]
  /\ UNCHANGED <<store, bank, now, batch>>

\* the rest of the handler: detect_anomaly where the handler has it, the
\* suspicious counter, then the update method, which ends with the save
UnitFinish(k) ==
  /\ units[k] # Idle
  /\ \E raw \in IF Scored(units[k].event_type) THEN ScoreSamples ELSE {RZero} :
     LET un == units[k]
         det == IF Scored(un.event_type)
                THEN DetectAnomaly(bank, un.profile, un.event_type, un.event, raw)
                ELSE NoDetection
         out == IF det.raised # ""
                THEN Outcome(un.profile, det.raised, store[un.user])
                ELSE UpdateWith(un.event_type,
                       CountSuspicious(un.profile, un.event_type,
                                       det.result.is_anomaly),
                       un.event, now, store[un.user])
     IN  /\ store' = [store EXCEPT ![un.user] = out.file]
         /\ calls' = Append(calls, Call(un.event_type, un.user, un.event, now,
                                        out.raised))
         /\ last' = Last(un.event_type, un.user, out.raised, det)
         /\ profile' = out.profile
         /\ origin' = [how |-> "loaded", at |-> Len(calls)]
         /\ units' = [units EXCEPT ![k] = Idle]
  /\ UNCHANGED <<bank, now, batch>>

NextUnits ==
  \/ Tick
  \/ \E k \in Units : UnitLoad(k)
  \/ \E k \in Units : UnitFinish(k)

SpecUnits == Init /\ [][NextUnits]_vars

\* ------------------------------------------------- reading a profile
Velocity24h(p, event_type) ==
  IF event_type = "login" THEN p.login_metrics.login_velocity_24h
  ELSE IF event_type = "transaction"
  THEN p.transaction_metrics.transaction_velocity_24h
  ELSE IF event_type = "session" THEN p.session_metrics.session_velocity_24h
  ELSE p.feature_usage_metrics.feature_usage_velocity_24h

Velocity7d(p, event_type) ==
  IF event_type = "login" THEN p.login_metrics.login_velocity_7d
  ELSE IF event_type = "transaction"
  THEN p.transaction_metrics.transaction_velocity_7d
  ELSE IF event_type = "session" THEN p.session_metrics.session_velocity_7d
  ELSE p.feature_usage_metrics.feature_usage_velocity_7d

Counter(p, event_type) ==
  IF event_type = "login" THEN p.login_metrics.total_logins
  ELSE IF event_type = "transaction" THEN p.transaction_metrics.total_transactions
  ELSE IF event_type = "session" THEN p.session_metrics.total_sessions
  ELSE p.feature_usage_metrics.feature_usage_count

\* the update calls made on the current object since it was built
ObjCalls == SubSeq(calls, origin.at + 1, Len(calls))

\* the object was built with no file in the store and every call made on it
\* since was an update of the given type
FreshWithOnly(event_type) ==
  /\ origin.how = "fresh"
  /\ ObjCalls # <<>>
  /\ \A i \in DOMAIN ObjCalls : ObjCalls[i].event_type = event_type

\* the event times of the calls of one type among the first n calls
TimesOf(cs, event_type, n) ==
  LET same == SelectSeq(SubSeq(cs, 1, n), LAMBDA c : c.event_type = event_type)
  IN  [i \in DOMAIN same |-> EventTime(event_type, same[i].event)]

\* how many of these event times lie in the window of length w ending at t
InWindow(times, t, w) ==
  Cardinality({i \in DOMAIN times : times[i] <= t /\ t - times[i] <= w})

\* ----------------------------------------------------------------- claims

\* C1: from a fresh profile, after N >= 1 transaction updates with amounts
\* a_1..a_N (zero and negative ones included) total_transactions = N,
\* total_amount = sum(a_i), avg_amount = sum(a_i)/N, max_amount = max(a_i).
C1_TransactionAggregates ==
  FreshWithOnly("transaction") =>
    LET amounts == [i \in DOMAIN ObjCalls |-> Float(ObjCalls[i].event.amount)]
        tm == profile.transaction_metrics
    IN  /\ tm.total_transactions = Len(amounts)
        /\ tm.total_amount = RSum(amounts)
        /\ tm.avg_amount = RDiv(RSum(amounts), Float(Len(amounts)))
        /\ tm.max_amount = RMaxOf(amounts)

\* C2: in every reachable profile state each of the five risk scores lies
\* in the closed interval [0, 1].
C2_RiskScoresInUnitInterval ==
  profile # NoProfile =>
    \A r \in {profile.risk_scores.login_risk,
              profile.risk_scores.transaction_risk,
              profile.risk_scores.session_risk,
              profile.risk_scores.feature_usage_risk,
              profile.risk_scores.overall_risk} :
       RLe(RZero, r) /\ RLe(r, ROne)

\* the exceptions of detect_anomaly: a request they end never reached the
\* update method
ScoringErrors == {"NotFittedError", "AttributeError"}

\* the requests for user u with events of one type that got past scoring
RequestsOf(u, event_type) ==
  SelectSeq(calls, LAMBDA c : /\ c.user = u
                              /\ c.event_type = event_type
                              /\ c.raised \notin ScoringErrors)

\* C3: when every event is processed the way the HTTP layer does it (load,
\* apply, save), every request completes without error and the profile then
\* loaded from the store has total_logins, total_transactions,
\* total_sessions and feature_usage_count equal to the number of events of
\* each kind processed so far.  (Requests that anomaly scoring rejected
\* before the event was applied are left out of both parts.)
C3_HttpCountersMatchEvents ==
  /\ \A i \in DOMAIN calls :
       calls[i].raised \notin ScoringErrors => calls[i].raised = ""
  /\ \A u \in Users :
       LET loaded == NewFraudProfile(u, store[u], now)
       IN  /\ loaded.raised = ""
           /\ \A t \in EventTypes :
                Counter(loaded.profile, t) = Len(RequestsOf(u, t))

\* C4: saving any reachable profile and loading it again for the same user
\* gives equal metric groups and risk scores and the same history in the
\* same order.
C4_SaveLoadRoundTrip ==
  profile # NoProfile =>
    LET saved == SaveProfile(profile)
        loaded == NewFraudProfile(profile.user_id, saved.file, now)
    IN  /\ saved.raised = ""
        /\ loaded.raised = ""
        /\ loaded.profile.login_metrics = profile.login_metrics
        /\ loaded.profile.transaction_metrics = profile.transaction_metrics
        /\ loaded.profile.session_metrics = profile.session_metrics
        /\ loaded.profile.feature_usage_metrics = profile.feature_usage_metrics
        /\ loaded.profile.risk_scores = profile.risk_scores
        /\ loaded.profile.historical_changes = profile.historical_changes

\* C5: after an event is processed, the 24h and 7d velocity of its kind
\* equal the number of same-kind events, the processed one included, whose
\* event time lies in the window ending at the processed event's timestamp
\* (two logins 600 seconds apart on a fresh profile: login_velocity_24h = 2).
C5_VelocityCountsEventsInWindow ==
  (origin.how = "fresh" /\ ObjCalls # <<>>) =>
    LET c == ObjCalls[Len(ObjCalls)]
        t == EventTime(c.event_type, c.event)
        times == TimesOf(ObjCalls, c.event_type, Len(ObjCalls))
    IN  /\ Velocity24h(profile, c.event_type) = InWindow(times, t, DaySeconds)
        /\ Velocity7d(profile, c.event_type) = InWindow(times, t, WeekSeconds)

\* C6: a login at t=0 and a second login with the same device, ip and
\* geolocation at t=600s on a fresh profile give total_logins = 2 and
\* avg_login_interval = 600.
C6_TwoLoginsScenario ==
  ( /\ FreshWithOnly("login")
    /\ Len(ObjCalls) = 2
    /\ EventTime("login", ObjCalls[1].event) = 0
    /\ EventTime("login", ObjCalls[2].event) = 600
    /\ ObjCalls[1].event.device_type = ObjCalls[2].event.device_type
    /\ ObjCalls[1].event.ip_address = ObjCalls[2].event.ip_address
    /\ ObjCalls[1].event.geolocation = ObjCalls[2].event.geolocation )
  => /\ profile.login_metrics.total_logins = 2
     /\ profile.login_metrics.avg_login_interval = Float(600)

\* the step is an update call on a fresh object
UpdateStep ==
  /\ origin.how = "fresh"
  /\ origin' = origin
  /\ profile # NoProfile
  /\ Len(calls') = Len(calls) + 1

\* C7: (a) while same-kind events arrive with increasing timestamps that all
\* fall inside one window, the velocity of that kind never decreases from
\* one update to the next; (b) when an event's timestamp is later than every
\* earlier same-kind timestamp by more than the window, the earlier events
\* contribute nothing to the velocity (it counts at most the event itself),
\* whatever the wall-clock time they were processed at.
C7_VelocityMonotoneThenExpires ==
  [][ UpdateStep =>
        LET cs == SubSeq(calls', origin.at + 1, Len(calls'))
            c == cs[Len(cs)]
            k == c.event_type
            t == EventTime(k, c.event)
            times == TimesOf(cs, k, Len(cs))
            earlier == TimesOf(cs, k, Len(cs) - 1)
        IN  /\ ( /\ \A i \in DOMAIN times : i > 1 => times[i - 1] < times[i]
                 /\ t - times[1] <= DaySeconds )
               => Velocity24h(profile', k) >= Velocity24h(profile, k)
            /\ (\A i \in DOMAIN earlier : t - earlier[i] > DaySeconds)
               => Velocity24h(profile', k) <= 1
    ]_vars

\* C8: for a non-empty sequence of session events every update_with_session
\* call completes without error; afterwards total_sessions is their number,
\* avg_session_duration their mean, max_session_duration their maximum, and
\* the session velocity counts sessions by their start_time.
C8_SessionAggregates ==
  FreshWithOnly("session") =>
    LET durations == [i \in DOMAIN ObjCalls |->
                        Float(ObjCalls[i].event.session_duration)]
        starts == TimesOf(ObjCalls, "session", Len(ObjCalls))
        sm == profile.session_metrics
    IN  /\ \A i \in DOMAIN ObjCalls : ObjCalls[i].raised = ""
        /\ sm.total_sessions = Len(durations)
        /\ sm.avg_session_duration = RDiv(RSum(durations), Float(Len(durations)))
        /\ sm.max_session_duration = RMaxOf(durations)
        /\ sm.session_velocity_24h \in
             {InWindow(starts, starts[Len(starts)], DaySeconds),
              InWindow(starts, starts[Len(starts)], DaySeconds) - 1}

\* C9: a bank constructed with zero persisted profile snapshots stays
\* unfitted, and every detect_anomaly call on it, for any event type, ends
\* in an error and returns no (is_anomaly, confidence, explanation) result.
C9_UnfittedBankNeverScores ==
  bank.n_files = 0 =>
    /\ \A t \in EventTypes : ~bank.scaler_fitted[t] /\ ~bank.model_fitted[t]
    /\ last.detection.called =>
         last.detection.raised # "" /\ last.detection.result = NoResult
    /\ profile # NoProfile =>
         \A t \in EventTypes : \A ev \in EventsOf(t) : \A raw \in ScoreSamples :
            DetectAnomaly(bank, profile, t, ev, raw).raised # ""

\* a scoring request was refused by a bank built from an empty store, at a
\* time when the store already holds a profile written since
C9_Witness ==
  /\ bank.n_files = 0
  /\ last.detection.called
  /\ last.detection.raised = "NotFittedError"
  /\ \E u \in Users : store[u].kind = "json"

\* every counter, mean, maximum, velocity and risk score is zero, no login
\* time is set and the history is empty
IsZeroProfile(p) ==
  /\ p.login_metrics.total_logins = 0
  /\ p.login_metrics.unique_devices = 0
  /\ p.login_metrics.unique_ips = 0
  /\ p.login_metrics.unique_locations = 0
  /\ p.login_metrics.avg_login_interval = RZero
  /\ p.login_metrics.last_login_time = None
  /\ p.login_metrics.suspicious_login_count = 0
  /\ p.transaction_metrics.total_transactions = 0
  /\ p.transaction_metrics.total_amount = RZero
  /\ p.transaction_metrics.avg_amount = RZero
  /\ p.transaction_metrics.max_amount = RZero
  /\ p.transaction_metrics.unique_merchants = 0
  /\ p.transaction_metrics.suspicious_transaction_count = 0
  /\ p.session_metrics.total_sessions = 0
  /\ p.session_metrics.avg_session_duration = RZero
  /\ p.session_metrics.max_session_duration = RZero
  /\ p.feature_usage_metrics.unique_features_used = 0
  /\ p.feature_usage_metrics.feature_usage_count = 0
  /\ p.feature_usage_metrics.total_frequency = RZero
  /\ p.feature_usage_metrics.avg_feature_frequency = RZero
  /\ p.feature_usage_metrics.std_feature_frequency = RZero
  /\ \A t \in EventTypes : Velocity24h(p, t) = 0 /\ Velocity7d(p, t) = 0
  /\ \A r \in {p.risk_scores.login_risk, p.risk_scores.transaction_risk,
               p.risk_scores.session_risk, p.risk_scores.feature_usage_risk,
               p.risk_scores.overall_risk} : r = RZero
  /\ p.historical_changes = <<>>

\* C10: loading a profile for a user_id with no persisted record never
\* fails and returns a profile with every counter, mean, maximum, velocity
\* and risk score zero, last_login_time unset and an empty history.
C10_UnknownUserLoadsZeroProfile ==
  /\ \A u \in Users :
       store[u].kind = "absent" =>
         LET out == NewFraudProfile(u, store[u], now)
         IN  out.raised = "" /\ out.profile.user_id = u /\ IsZeroProfile(out.profile)
  /\ (last.op = "get_profile" /\ store[last.user].kind = "absent") =>
       /\ last.raised = ""
       /\ profile.user_id = last.user
       /\ IsZeroProfile(profile)

\* a profile was requested for a user with no file while the other user
\* already has one
C10_Witness ==
  /\ last.op = "get_profile"
  /\ store[last.user].kind = "absent"
  /\ \E u \in Users : store[u].kind # "absent"

\* C11: if an event's timestamp (start_time for a session) does not parse to
\* a valid instant, the update fails with an error and leaves the profile
\* unchanged: no counter, mean, maximum, velocity or risk score changes, no
\* history entry is appended and nothing is written to the store.
C11_UnparsableTimestampRejected ==
  [][ Len(calls') = Len(calls) + 1 =>
        LET c == calls'[Len(calls')]
        IN  TimestampError(c.event, TimeKey(c.event_type)) # "" =>
              /\ c.raised = TimestampError(c.event, TimeKey(c.event_type))
              /\ last'.raised = c.raised
              /\ profile' = profile
              /\ store' = store
    ]_vars

\* an update with an unparsable time has just failed on an object that
\* already holds history and has a file in the store
C11_Witness ==
  /\ calls # <<>>
  /\ TimestampError(calls[Len(calls)].event,
                    TimeKey(calls[Len(calls)].event_type)) = "ValueError"
  /\ last.raised = "ValueError"
  /\ profile # NoProfile
  /\ profile.historical_changes # <<>>
  /\ store[profile.user_id].kind = "json"

\* C12: if a required event field other than the timestamp is missing (a
\* login without device_type, ip_address or geolocation, a transaction
\* without merchant_id), the update rejects the event and the profile object
\* it was called on is untouched: every metric, the history and last_updated
\* are exactly as before the call.
C12_IncompleteEventLeavesObject ==
  [][ Len(calls') = Len(calls) + 1 =>
        LET c == calls'[Len(calls')]
        IN  ( /\ TimestampError(c.event, TimeKey(c.event_type)) = ""
              /\ RequiredFields(c.event_type) \ DOMAIN c.event # {} )
            => /\ c.raised # ""
               /\ profile' = profile
    ]_vars

\* the requests for user u with events of one type that completed
CompletedFor(u, event_type) ==
  SelectSeq(calls, LAMBDA c : /\ c.user = u
                              /\ c.event_type = event_type
                              /\ c.raised = "")

\* the readable persisted profile of every user holds, per kind, one count
\* and one history entry for every request that completed
PersistedReflectsCompleted ==
  \A u \in Users : \A t \in EventTypes :
     store[u].kind = "json" =>
       /\ Counter(store[u].data, t) = Len(CompletedFor(u, t))
       /\ Len(EntriesOf(store[u].data.historical_changes, t))
            = Len(CompletedFor(u, t))

\* C13: two event-processing units for the same user_id that overlap (each
\* loads the profile, applies its event and saves) never lose an update:
\* once both have completed, the persisted counters and history reflect
\* both events.  Processing an event for one user_id never changes the
\* persisted profile of another user_id.
C13_OverlappingUnitsLoseNoUpdate ==
  [][ /\ (InFlight' = {}) => PersistedReflectsCompleted'
      /\ \A u \in Users : store'[u] # store[u] => last'.user = u
    ]_vars

\* the frequencies of the update calls made on the current object, an event
\* without the field counting as 1
CalledFrequencies ==
  [i \in DOMAIN ObjCalls |->
     IF "frequency" \in DOMAIN ObjCalls[i].event
     THEN Float(ObjCalls[i].event.frequency) ELSE Float(1)]

\* the population variance of a non-empty sequence of numbers
PopulationVariance(xs) ==
  LET mean == RDiv(RSum(xs), Float(Len(xs)))
      dev(i) == RAdd(xs[i], RMul(Float(-1), mean))
  IN  RDiv(RSum([i \in DOMAIN xs |-> RMul(dev(i), dev(i))]), Float(Len(xs)))

\* C14: from a fresh profile, after feature-usage events with frequencies
\* f_1..f_N: feature_usage_count = N, total_frequency = sum(f_i),
\* avg_feature_frequency = sum(f_i)/N and std_feature_frequency is the
\* population standard deviation of f_1..f_N (0 when N < 2); an event
\* without a frequency field counts as frequency 1.  Frequencies [1,1,1,5]
\* give avg 2 and population variance 3 (std about 1.7321).
C14_FeatureUsageAggregates ==
  FreshWithOnly("feature_usage") =>
    LET fs == CalledFrequencies
        fm == profile.feature_usage_metrics
    IN  /\ \A i \in DOMAIN ObjCalls : ObjCalls[i].raised = ""
        /\ fm.feature_usage_count = Len(fs)
        /\ fm.total_frequency = RSum(fs)
        /\ fm.avg_feature_frequency = RDiv(RSum(fs), Float(Len(fs)))
        /\ fm.std_feature_frequency =
             IF Len(fs) < 2 THEN RZero ELSE RSqrt(PopulationVariance(fs))
        /\ fs = <<Float(1), Float(1), Float(1), Float(5)>> =>
             /\ fm.avg_feature_frequency = Float(2)
             /\ PopulationVariance(fs) = Float(3)
             /\ RLe(Rat(173, 100), fm.std_feature_frequency)
             /\ RLe(fm.std_feature_frequency, Rat(174, 100))

\* the frequencies 1, 1, 1, 5 have been applied to a fresh object, the first
\* of them by an event that has no frequency field
C14_Witness ==
  /\ FreshWithOnly("feature_usage")
  /\ CalledFrequencies = <<Float(1), Float(1), Float(1), Float(5)>>
  /\ "frequency" \notin DOMAIN ObjCalls[1].event
  /\ profile.feature_usage_metrics.feature_usage_count = 4

\* a detect_anomaly call was made and returned a result
ScoredAndReturned == last.detection.called /\ last.detection.raised = ""

\* C15 as stated: for every detect_anomaly call on a fitted bank, is_anomaly
\* is the comparison of the sample's score with the percentile of the
\* one-element array holding that score, and this comparison is true, so
\* is_anomaly is true on every such call.
C15_IsAnomalyAlwaysTrue ==
  ScoredAndReturned => last.detection.result.is_anomaly

\* C15 amended: for every detect_anomaly call on a fitted bank that returns
\* a result, is_anomaly is the strict comparison of the sample's score with
\* the percentile of the one-element array holding that score, which is the
\* score itself, so is_anomaly is false on every such call.
C15_IsAnomalyAlwaysFalse ==
  /\ ScoredAndReturned => ~last.detection.result.is_anomaly
  /\ profile # NoProfile =>
       \A t \in EventTypes : \A ev \in EventsOf(t) : \A raw \in ScoreSamples :
          LET d == DetectAnomaly(bank, profile, t, ev, raw)
          IN  d.raised = "" => ~d.result.is_anomaly

\* a login or feature-usage request was scored by a bank fitted for its
\* type and the call returned
C15_Witness ==
  /\ ScoredAndReturned
  /\ last.op \in EventTypes
  /\ bank.scaler_fitted[last.op]
  /\ bank.model_fitted[last.op]
  /\ last.detection.result.confidence # RZero

\* the accounts that have a row in a frame
AccountsOf(df) == {df[i].user_id : i \in DOMAIN df}

\* how many rows of a frame are for an account
RowCount(df, user_id) == Cardinality({i \in DOMAIN df : df[i].user_id = user_id})

\* the input frame of each kind of event
FrameOf(event_type) ==
  IF event_type = "login" THEN batch.logins
  ELSE IF event_type = "transaction" THEN batch.transactions
  ELSE IF event_type = "session" THEN batch.sessions
  ELSE batch.feature_usage

\* C16: create_user_features applies every event of the four collections
\* exactly once to the profile of its account: for each returned profile,
\* total_logins, total_sessions, total_transactions and feature_usage_count
\* equal the number of that account's rows in the matching collection, and
\* the events were replayed in non-decreasing timestamp order per account.
C16_BatchAppliesEveryEventOnce ==
  (batch.called /\ batch.raised = "") =>
    \A u \in DOMAIN batch.profiles : \A t \in EventTypes :
       LET entries == EntriesOf(batch.profiles[u].historical_changes, t)
       IN  /\ Counter(batch.profiles[u], t) = RowCount(FrameOf(t), u)
           /\ \A i \in DOMAIN entries : \A j \in DOMAIN entries :
                i < j => EventTime(t, entries[i].event_data)
                           <= EventTime(t, entries[j].event_data)

\* C17: create_user_features returns exactly one profile for every account
\* that appears in at least one of the four collections, accounts without
\* login events included.
C17_BatchReturnsEveryAccount ==
  batch.called =>
    /\ batch.raised = ""
    /\ DOMAIN batch.profiles =
         UNION {AccountsOf(FrameOf(t)) : t \in EventTypes}
    /\ \A u \in DOMAIN batch.profiles : batch.profiles[u].user_id = u

\* the step is an update call that got as far as _save_profile, and the
\* save failed: it left the truncated file
SaveFailedStep ==
  /\ profile # NoProfile
  /\ Len(calls') = Len(calls) + 1
  /\ calls'[Len(calls')].raised \notin {"KeyError", "ValueError"}
  /\ store'[profile.user_id] = CorruptFile

\* C18: when the store save at the end of an update fails, the failure is
\* reported to the caller as an error and the in-memory profile keeps the
\* mutation: the counter, the derived metrics, the risk scores and the
\* appended history entry are not rolled back.
C18_FailedSaveKeepsMutation ==
  [][ SaveFailedStep =>
        LET c == calls'[Len(calls')]
            history == profile'.historical_changes
        IN  /\ c.raised # ""
            /\ last'.raised = c.raised
            /\ Counter(profile', c.event_type) = Counter(profile, c.event_type) + 1
            /\ Len(history) = Len(profile.historical_changes) + 1
            /\ history[Len(history)].event_type = c.event_type
            /\ history[Len(history)].event_data = c.event
            /\ profile'.last_updated = now
            /\ profile'.risk_scores = UpdateRiskScores(profile').risk_scores
            /\ c.event_type = "login" =>
                 profile'.login_metrics.last_login_time
                   = Some(EventTime("login", c.event))
            /\ c.event_type = "transaction" =>
                 profile'.transaction_metrics.total_amount
                   = RAdd(profile.transaction_metrics.total_amount,
                          Float(c.event.amount))
    ]_vars

\* a transaction update has just failed in its save, on an object that had
\* taken a login before
C18_Witness ==
  /\ profile # NoProfile
  /\ last.op = "transaction"
  /\ last.raised = "TypeError"
  /\ store[last.user] = CorruptFile
  /\ profile.transaction_metrics.total_transactions >= 1
  /\ profile.login_metrics.total_logins >= 1

\* C19: for one user_id, across any sequence of operations (successful and
\* failed updates, saves, reloads from the store), total_logins,
\* total_transactions, total_sessions and feature_usage_count as observed
\* in the persisted profile never decrease: a count a reload observed
\* before a step is still observed by a reload after it, or a larger one.
C19_PersistedCountersNeverDecrease ==
  [][ \A u \in Users : \A t \in EventTypes :
        LET before == NewFraudProfile(u, store[u], now)
            after == NewFraudProfile(u, store'[u], now')
        IN  (before.raised = "" /\ Counter(before.profile, t) > 0) =>
              /\ after.raised = ""
              /\ Counter(after.profile, t) >= Counter(before.profile, t)
    ]_vars

\* C20: in every reachable in-memory profile state, states left behind by
\* an update that ended in an error included, the number of history entries
\* of each event kind equals that kind's counter: an event changes the
\* counter and the history together or not at all.
C20_HistoryMatchesCounters ==
  profile # NoProfile =>
    \A t \in EventTypes :
       Len(EntriesOf(profile.historical_changes, t)) = Counter(profile, t)

\* min(1, x)
AtMostOne(x) == IF RLe(x, ROne) THEN x ELSE ROne

\* the five risk scores as the weighted sums of the metrics of p
StatedRiskScores(p) ==
  LET lm == p.login_metrics
      tm == p.transaction_metrics
      sm == p.session_metrics
      fm == p.feature_usage_metrics
      login == AtMostOne(RSum(<<Rat(3 * lm.login_velocity_24h, 100),
                                Rat(3 * lm.unique_locations, 50),
                                Rat(4 * lm.unique_devices, 30)>>))
      transaction == AtMostOne(RSum(<<Rat(3 * tm.transaction_velocity_24h, 200),
                                      RMul(Rat(4, 10000), tm.avg_amount),
                                      Rat(3 * tm.unique_merchants, 100)>>))
      session == AtMostOne(RSum(<<Rat(4 * sm.session_velocity_24h, 150),
                                  RMul(Rat(6, 36000), sm.avg_session_duration)>>))
      feature_usage == AtMostOne(RSum(<<Rat(3 * fm.feature_usage_velocity_24h, 500),
                                        RMul(Rat(4, 10), fm.std_feature_frequency),
                                        RMul(Rat(3, 100), fm.avg_feature_frequency)>>))
  IN  [login_risk |-> login, transaction_risk |-> transaction,
       session_risk |-> session, feature_usage_risk |-> feature_usage,
       overall_risk |-> RSum(<<RMul(Rat(3, 10), login),
                               RMul(Rat(3, 10), transaction),
                               RMul(Rat(2, 10), session),
                               RMul(Rat(2, 10), feature_usage)>>)]

\* the step is an update call that returned without raising
UpdateReturnedStep ==
  /\ profile # NoProfile
  /\ Len(calls') = Len(calls) + 1
  /\ calls'[Len(calls')].raised = ""

\* C21: after every successful update of any kind the five stored risk
\* scores equal the fixed formulas applied to the metrics the profile holds
\* after the update: login_risk = min(1, 0.3*v24/10 + 0.3*unique_locations/5
\* + 0.4*unique_devices/3), transaction_risk = min(1, 0.3*v24/20
\* + 0.4*avg_amount/1000 + 0.3*unique_merchants/10), session_risk =
\* min(1, 0.4*v24/15 + 0.6*avg_session_duration/3600), feature_usage_risk =
\* min(1, 0.3*v24/50 + 0.4*std_feature_frequency
\* + 0.3*avg_feature_frequency/10), overall_risk = 0.3*login
\* + 0.3*transaction + 0.2*session + 0.2*feature_usage; no stored score is
\* stale with respect to the metrics it is derived from.
C21_RiskScoresFollowMetrics ==
  [][ UpdateReturnedStep => profile'.risk_scores = StatedRiskScores(profile')
    ]_vars

\* a second transaction has just been applied and saved: the velocity and
\* the average amount it left differ from those the scores were last
\* computed from
C21_Witness ==
  /\ profile # NoProfile
  /\ last.op = "transaction"
  /\ last.raised = ""
  /\ profile.transaction_metrics.transaction_velocity_24h >= 1
  /\ profile.transaction_metrics.total_transactions >= 2
  /\ profile.risk_scores.transaction_risk # RZero

\* C22: after any login update unique_devices, unique_ips and
\* unique_locations are each exactly 1, and after any transaction update
\* unique_merchants is exactly 1, however many distinct devices, addresses,
\* locations or merchants appeared in earlier events; in every reachable
\* state these four fields are 0 or 1.
C22_UniqueCountsAreOne ==
  profile # NoProfile =>
    /\ \A n \in {profile.login_metrics.unique_devices,
                 profile.login_metrics.unique_ips,
                 profile.login_metrics.unique_locations,
                 profile.transaction_metrics.unique_merchants} : n \in {0, 1}
    /\ last.op = "login" =>
         /\ profile.login_metrics.unique_devices = 1
         /\ profile.login_metrics.unique_ips = 1
         /\ profile.login_metrics.unique_locations = 1
    /\ last.op = "transaction" =>
         profile.transaction_metrics.unique_merchants = 1

\* the object has just taken a second login, which differs in device,
\* address and location from the first
C22_Witness ==
  /\ profile # NoProfile
  /\ last.op = "login"
  /\ \E i, j \in DOMAIN ObjCalls :
        /\ i < j
        /\ j = Len(ObjCalls)
        /\ ObjCalls[i].event_type = "login"
        /\ ObjCalls[j].event_type = "login"
        /\ ObjCalls[i].event.device_type # ObjCalls[j].event.device_type
        /\ ObjCalls[i].event.ip_address # ObjCalls[j].event.ip_address
        /\ ObjCalls[i].event.geolocation # ObjCalls[j].event.geolocation
  /\ profile.login_metrics.total_logins = 2
  /\ profile.login_metrics.unique_devices = 1

\* the step is a login update call on the current object
LoginStep ==
  /\ profile # NoProfile
  /\ Len(calls') = Len(calls) + 1
  /\ calls'[Len(calls')].event_type = "login"

\* C23: on the first login of a profile (no last_login_time)
\* avg_login_interval is left unchanged at 0; on every later login it
\* becomes (old_avg*(n-1) + gap)/n, where n is total_logins after the
\* increment and gap is the number of seconds between the event's timestamp
\* and the previous last_login_time; after every login last_login_time
\* equals the event's timestamp.
C23_LoginIntervalRunningMean ==
  [][ LoginStep =>
        LET old == profile.login_metrics
            new == profile'.login_metrics
            t == EventTime("login", calls'[Len(calls')].event)
            n == new.total_logins
        IN  /\ n = old.total_logins + 1
            /\ old.last_login_time = None =>
                 /\ old.avg_login_interval = RZero
                 /\ new.avg_login_interval = RZero
            /\ old.last_login_time # None =>
                 RMul(new.avg_login_interval, Float(n))
                   = RAdd(RMul(old.avg_login_interval, Float(n - 1)),
                          Float(t - old.last_login_time[1]))
            /\ new.last_login_time = Some(t)
    ]_vars

\* logins at 0, 800000 and again 800000 seconds have been taken: the
\* second left an average of 400000, the third (400000*2 + 0)/3
C23_Witness ==
  /\ profile # NoProfile
  /\ last.op = "login"
  /\ profile.login_metrics.total_logins = 3
  /\ Len(ObjCalls) = 3
  /\ EventTime("login", ObjCalls[1].event) = 0
  /\ EventTime("login", ObjCalls[2].event) = 800000
  /\ EventTime("login", ObjCalls[3].event) = 800000
  /\ profile.login_metrics.avg_login_interval = Rat(800000, 3)
  /\ profile.login_metrics.last_login_time = Some(800000)

\* the step is a request that posts an event
RequestStep == Len(calls') = Len(calls) + 1

\* C24: for login, transaction and feature-usage events the anomaly result
\* returned with the updated profile is computed from the profile as it was
\* before the event was applied: the feature vector handed to the model
\* reads the pre-update metrics (plus the event's amount for transactions)
\* and the event's own update is applied only after scoring.  Session
\* events are applied without any anomaly scoring.
C24_ScoredOnPreUpdateProfile ==
  [][ RequestStep =>
        LET c == calls'[Len(calls')]
            built == NewFraudProfile(c.user, store[c.user], now)
            before == built.profile
            det == last'.detection
        IN  /\ (c.event_type # "session" /\ det.called /\ det.raised = "") =>
                 /\ built.raised = ""
                 /\ det.result.features
                      = ExtractFeatures(before, c.event_type, c.event)
                 /\ Counter(profile', c.event_type)
                      = Counter(before, c.event_type) + 1
            /\ (c.event_type = "session" /\ built.raised = "") =>
                 /\ ~det.called
                 /\ Counter(profile', "session") = Counter(before, "session") + 1
    ]_vars

\* a feature-usage request was scored and then applied: the vector it was
\* scored on holds the total frequency from before the event, not the one
\* the updated profile gives
C24_Witness ==
  /\ profile # NoProfile
  /\ last.op = "feature_usage"
  /\ last.raised = ""
  /\ ScoredAndReturned
  /\ profile.feature_usage_metrics.feature_usage_count = 1
  /\ profile.feature_usage_metrics.total_frequency = Float(5)
  /\ last.detection.result.features[5] = RZero
  /\ last.detection.result.features
       # ExtractFeatures(profile, "feature_usage", calls[Len(calls)].event)

\* x > k, for a feature value x and a whole number k
Exceeds(x, k) == x.n > k * x.d

\* the slot holds the label when the condition holds and null when not
SlotIs(slot, label, condition) ==
  /\ slot = label <=> condition
  /\ slot = Null <=> ~condition

\* C25: in every explanation each risk_factors slot holds its label exactly
\* when its threshold condition holds on the feature vector and is null
\* otherwise: login velocity24h > 10, unique_locations > 3, unique_devices
\* > 2; transaction velocity24h > 20, amount > 2*avg_amount,
\* unique_merchants > 5; session velocity24h > 15, duration > 3600,
\* total_sessions > 10; feature-usage velocity24h > 50, unique_features
\* > 10, std_frequency > avg_frequency, total_frequency > 100.  No label is
\* reported for a condition that does not hold.
C25_RiskFactorsFollowThresholds ==
  ScoredAndReturned =>
    LET f == last.detection.result.features
        slots == last.detection.result.explanation.risk_factors
    IN  /\ last.op = "login" =>
             /\ Len(slots) = 3
             /\ SlotIs(slots[1], "High login velocity", Exceeds(f[1], 10))
             /\ SlotIs(slots[2], "Multiple locations", Exceeds(f[2], 3))
             /\ SlotIs(slots[3], "Multiple devices", Exceeds(f[3], 2))
        /\ last.op = "transaction" =>
             /\ Len(slots) = 3
             /\ SlotIs(slots[1], "High transaction velocity", Exceeds(f[1], 20))
             /\ SlotIs(slots[2], "Large amount",
                       f[2].n * f[3].d > 2 * f[3].n * f[2].d)
             /\ SlotIs(slots[3], "Unusual merchant", Exceeds(f[4], 5))
        /\ last.op = "session" =>
             /\ Len(slots) = 3
             /\ SlotIs(slots[1], "High session velocity", Exceeds(f[1], 15))
             /\ SlotIs(slots[2], "Long duration", Exceeds(f[2], 3600))
             /\ SlotIs(slots[3], "Multiple sessions", Exceeds(f[4], 10))
        /\ last.op = "feature_usage" =>
             /\ Len(slots) = 4
             /\ SlotIs(slots[1], "High feature usage velocity", Exceeds(f[1], 50))
             /\ SlotIs(slots[2], "Unusual number of features", Exceeds(f[2], 10))
             /\ SlotIs(slots[3], "Abnormal usage frequency",
                       f[4].n * f[3].d > f[3].n * f[4].d)
             /\ SlotIs(slots[4], "High total frequency", Exceeds(f[5], 100))

\* an explanation of a feature-usage vector with the velocity on its
\* threshold and the three other values above theirs: the first slot is
\* null, the other three hold their labels
C25_Witness ==
  /\ ScoredAndReturned
  /\ last.op = "feature_usage"
  /\ last.detection.result.features
       = <<Float(50), Float(11), Float(5), Rat(11, 2), Float(101)>>
  /\ last.detection.result.explanation.risk_factors
       = <<Null, "Unusual number of features", "Abnormal usage frequency",
           "High total frequency">>

\* C26: in every reachable profile state and for each of the four event
\* kinds, velocity_24h <= velocity_7d <= the number of history entries of
\* that kind.
C26_VelocitiesNested ==
  profile # NoProfile =>
    \A t \in EventTypes :
       /\ Velocity24h(profile, t) <= Velocity7d(profile, t)
       /\ Velocity7d(profile, t)
            <= Len(EntriesOf(profile.historical_changes, t))

\* a login stamped a week and more after an earlier entry and a little over
\* a day after a later one: nothing counts for 24h, one entry for 7d, and
\* the history holds three logins
C26_Witness ==
  /\ profile # NoProfile
  /\ last.op = "login"
  /\ profile.login_metrics.login_velocity_24h = 0
  /\ profile.login_metrics.login_velocity_7d = 1
  /\ Len(EntriesOf(profile.historical_changes, "login")) = 3

\* the step is a request whose detect_anomaly call raised
ScoringFailedStep ==
  /\ RequestStep
  /\ last'.detection.called
  /\ last'.detection.raised # ""

\* C27: in the HTTP event flow for login, transaction and feature-usage
\* events, when anomaly scoring ends in an error (for example because the
\* bank was never fitted), the event is not applied: the persisted profile
\* of that user_id, its counters and its history are exactly as before the
\* request.
C27_ScoringErrorLeavesProfile ==
  [][ ScoringFailedStep =>
        LET c == calls'[Len(calls')]
            before == NewFraudProfile(c.user, store[c.user], now)
            after == NewFraudProfile(c.user, store'[c.user], now')
        IN  /\ c.event_type \in {"login", "transaction", "feature_usage"}
            /\ c.raised = last'.detection.raised
            /\ store' = store
            /\ after = before
            /\ profile' = before.profile
            /\ \A t \in EventTypes :
                 /\ Counter(after.profile, t) = Counter(before.profile, t)
                 /\ EntriesOf(after.profile.historical_changes, t)
                      = EntriesOf(before.profile.historical_changes, t)
    ]_vars

\* a transaction request was refused by scoring for a user whose stored
\* profile already holds an applied session: the file still holds that
\* session and no transaction
C27_Witness ==
  /\ last.op = "transaction"
  /\ last.detection.called
  /\ last.detection.raised # ""
  /\ last.raised = last.detection.raised
  /\ store[last.user].kind = "json"
  /\ store[last.user].data.session_metrics.total_sessions = 1
  /\ store[last.user].data.transaction_metrics.total_transactions = 0
  /\ Len(store[last.user].data.historical_changes) = 1

\* C28: in every persisted profile state reachable through the HTTP event
\* flow, suspicious_login_count and suspicious_transaction_count are 0: no
\* sequence of processed events ever increments either counter, in the
\* stored file or in the object a handler works on.
C28_SuspiciousCountsStayZero ==
  /\ \A u \in Users :
       store[u].kind = "json" =>
         /\ store[u].data.login_metrics.suspicious_login_count = 0
         /\ store[u].data.transaction_metrics.suspicious_transaction_count = 0
  /\ profile # NoProfile =>
       /\ profile.login_metrics.suspicious_login_count = 0
       /\ profile.transaction_metrics.suspicious_transaction_count = 0

\* a login request was scored by a fitted bank and then applied to the
\* object, while the store holds a readable profile
C28_Witness ==
  /\ profile # NoProfile
  /\ last.op = "login"
  /\ last.detection.called
  /\ last.detection.raised = ""
  /\ profile.login_metrics.total_logins = 1
  /\ profile.login_metrics.suspicious_login_count = 0
  /\ \E u \in Users : store[u].kind = "json"

\* the positions of a scoring vector that are read from the incoming event
EventColumns == {"event.amount", "event.session_duration"}

\* C29: for each event type, the feature vector used to fit the bank from
\* persisted snapshots and the feature vector built at scoring time have
\* the same length and carry the same quantity at every position, so the
\* fitted scaler is applied to the quantity it was fitted on: for every
\* persisted snapshot the two vectors are read from the same quantities
\* position by position, and the profile loaded from the snapshot gives,
\* at every position read from the profile, the value the snapshot
\* contributed to the fit.
C29_FitAndScoringVectorsAgree ==
  \A u \in Users :
     store[u].kind = "json" =>
       \A t \in EventTypes : \A ev \in EventsOf(t) :
          LET fit == FitFeatures(store[u].data, t)
              loaded == NewFraudProfile(u, store[u], now).profile
              scoring == ExtractFeatures(loaded, t, ev)
          IN  /\ Len(fit) = Len(scoring)
              /\ FitColumns(t) = ScoringColumns(t)
              /\ \A i \in DOMAIN scoring :
                    ScoringColumns(t)[i] \notin EventColumns =>
                      fit[i] = scoring[i]

====
